---- MODULE Spec2Model ----
(***************************************************************************)
(* Schema discovery and drift detection for demoparser2:                   *)
(*   - the identifier normalizers of the code generator (doc_gen.py,       *)
(*     generator.py),                                                      *)
(*   - analyze_demo / generate_all_files of both generator versions,       *)
(*   - the sampler validator (sampler.py),                                 *)
(*   - the generated-code validator (doc_validate.py).                     *)
(* Names are modelled as sequences of one-character strings, so that the   *)
(* character-level transformations of the code are computed, not assumed.  *)
(***************************************************************************)
EXTENDS Integers, Sequences, FiniteSets, TLC

\* ------------------------------------------------------------------------
\* Bounds of the model
\* ------------------------------------------------------------------------
MaxLen == 3
MaxEvents == 2
MaxCols == 2
MaxRows == 1
MaxAnomalies == 2

\* ------------------------------------------------------------------------
\* Characters
\* ------------------------------------------------------------------------
AsciiLower ==
    {"a","b","c","d","e","f","g","h","i","j","k","l","m",
     "n","o","p","q","r","s","t","u","v","w","x","y","z"}

AsciiUpper ==
    {"A","B","C","D","E","F","G","H","I","J","K","L","M",
     "N","O","P","Q","R","S","T","U","V","W","X","Y","Z"}

AsciiLetters == AsciiLower \cup AsciiUpper

Digits == {"0","1","2","3","4","5","6","7","8","9"}

\* the characters raw names are drawn from: letters of both cases, a digit,
\* the underscore, four of the specially mapped characters, a character that
\* is not specially mapped and a non-ASCII letter
Alphabet == {"a", "A", "1", "_", ".", "+", "-", "/", "é"}

LowerSeq ==
    <<"a","b","c","d","e","f","g","h","i","j","k","l","m",
      "n","o","p","q","r","s","t","u","v","w","x","y","z","é">>

UpperSeq ==
    <<"A","B","C","D","E","F","G","H","I","J","K","L","M",
      "N","O","P","Q","R","S","T","U","V","W","X","Y","Z","É">>

\* str.upper() / str.lower() on one character
UpperChar(c) ==
    IF \E i \in 1..Len(LowerSeq) : LowerSeq[i] = c
    THEN UpperSeq[CHOOSE i \in 1..Len(LowerSeq) : LowerSeq[i] = c]
    ELSE c

LowerChar(c) ==
    IF \E i \in 1..Len(UpperSeq) : UpperSeq[i] = c
    THEN LowerSeq[CHOOSE i \in 1..Len(UpperSeq) : UpperSeq[i] = c]
    ELSE c

\* the characters of the model in code point order (the order of sorted())
CodePointOrder ==
    <<" ", "+", "-", ".", "/",
      "0","1","2","3","4","5","6","7","8","9",
      "A","B","C","D","E","F","G","H","I","J","K","L","M",
      "N","O","P","Q","R","S","T","U","V","W","X","Y","Z",
      "[", "]", "_",
      "a","b","c","d","e","f","g","h","i","j","k","l","m",
      "n","o","p","q","r","s","t","u","v","w","x","y","z",
      "É", "é">>

CodePoint(c) == CHOOSE i \in 1..Len(CodePointOrder) : CodePointOrder[i] = c

\* a < b for two strings, as Python compares them
RECURSIVE StrLess(_, _)
StrLess(a, b) ==
    IF b = <<>> THEN FALSE
    ELSE IF a = <<>> THEN TRUE
    ELSE IF Head(a) = Head(b) THEN StrLess(Tail(a), Tail(b))
    ELSE CodePoint(Head(a)) < CodePoint(Head(b))

\* sorted(S) for a set of strings
RECURSIVE Sorted(_)
Sorted(S) ==
    IF S = {} THEN <<>>
    ELSE LET m == CHOOSE x \in S : \A y \in S \ {x} : StrLess(x, y)
         IN  <<m>> \o Sorted(S \ {m})

RECURSIVE NamesOfLen(_)
NamesOfLen(n) ==
    IF n = 0 THEN {<<>>}
    ELSE {Append(s, c) : s \in NamesOfLen(n - 1), c \in Alphabet}

Names == UNION {NamesOfLen(n) : n \in 0..MaxLen}

\* ------------------------------------------------------------------------
\* String primitives used by the normalizers
\* ------------------------------------------------------------------------
\* str.replace(c, r) for a one-character needle c and a replacement r
RECURSIVE ReplaceChar(_, _, _)
ReplaceChar(s, c, r) ==
    IF s = <<>> THEN <<>>
    ELSE (IF Head(s) = c THEN r ELSE <<Head(s)>>) \o ReplaceChar(Tail(s), c, r)

HasDoubleUnderscore(s) ==
    \E i \in 1..(Len(s) - 1) : s[i] = "_" /\ s[i + 1] = "_"

\* one pass of str.replace("__", "_"): leftmost, non-overlapping matches
RECURSIVE ReplaceDoubleUnderscore(_)
ReplaceDoubleUnderscore(s) ==
    IF Len(s) < 2 THEN s
    ELSE IF s[1] = "_" /\ s[2] = "_"
         THEN <<"_">> \o ReplaceDoubleUnderscore(SubSeq(s, 3, Len(s)))
         ELSE <<s[1]>> \o ReplaceDoubleUnderscore(Tail(s))

\* while "__" in safe: safe = safe.replace("__", "_")
RECURSIVE CollapseLoop(_)
CollapseLoop(s) ==
    IF HasDoubleUnderscore(s) THEN CollapseLoop(ReplaceDoubleUnderscore(s)) ELSE s

RECURSIVE LStrip(_)
LStrip(s) ==
    IF s # <<>> /\ Head(s) = "_" THEN LStrip(Tail(s)) ELSE s

RECURSIVE RStrip(_)
RStrip(s) ==
    IF s # <<>> /\ s[Len(s)] = "_" THEN RStrip(SubSeq(s, 1, Len(s) - 1)) ELSE s

\* str.strip("_")
Strip(s) == RStrip(LStrip(s))

\* re.sub(r'[^a-zA-Z0-9_]', '_', name)
ReSubNonWord(s) ==
    [i \in 1..Len(s) |->
        IF s[i] \in AsciiLetters \cup Digits \cup {"_"} THEN s[i] ELSE "_"]

\* re.sub(r'_+', '_', safe)
RECURSIVE ReSubUnderscoreRuns(_)
ReSubUnderscoreRuns(s) ==
    IF s = <<>> THEN <<>>
    ELSE IF Head(s) = "_"
         THEN <<"_">> \o ReSubUnderscoreRuns(LStrip(s))
         ELSE <<Head(s)>> \o ReSubUnderscoreRuns(Tail(s))

\* str.upper()
Upper(s) == [i \in 1..Len(s) |-> UpperChar(s[i])]

\* str.lower()
Lower(s) == [i \in 1..Len(s) |-> LowerChar(s[i])]

\* str.capitalize(): first character upper-cased, the rest lower-cased
Capitalize(s) ==
    [i \in 1..Len(s) |-> IF i = 1 THEN UpperChar(s[i]) ELSE LowerChar(s[i])]

\* ''.join(part.capitalize() for part in re.split(r'[^a-zA-Z0-9]', name) if part)
\* cur is the part being read
RECURSIVE JoinCapitalized(_, _)
JoinCapitalized(s, cur) ==
    IF s = <<>> THEN Capitalize(cur)
    ELSE IF Head(s) \in AsciiLetters \cup Digits
         THEN JoinCapitalized(Tail(s), Append(cur, Head(s)))
         ELSE Capitalize(cur) \o JoinCapitalized(Tail(s), <<>>)

\* ------------------------------------------------------------------------
\* Identifier normalizers
\* ------------------------------------------------------------------------
\* the chain of str.replace calls on the first line of _to_safe_enum_name
\* the replace chain of _to_safe_enum_name treating '+' like the other
\* special characters
EnumReplaceChainPlusAsUnderscore(name) ==
    ReplaceChar(
      ReplaceChar(
        ReplaceChar(
          ReplaceChar(
            ReplaceChar(
              ReplaceChar(name, ".", <<"_">>),
              "[", <<"_">>),
            "]", <<"_">>),
          " ", <<"_">>),
        "+", <<"_">>),
      "-", <<"_">>)

EnumReplaceChain(name) ==
    ReplaceChar(
      ReplaceChar(
        ReplaceChar(
          ReplaceChar(
            ReplaceChar(
              ReplaceChar(name, ".", <<"_">>),
              "[", <<"_">>),
            "]", <<"_">>),
          " ", <<"_">>),
        "+", <<"p", "l", "u", "s">>),
      "-", <<"_">>)

\* a version of _to_safe_enum_name that tests for the leading digit before
\* it strips the underscores
ToSafeEnumNamePrefixBeforeStrip(name) ==
    LET safe == CollapseLoop(EnumReplaceChain(name))
        pre  == IF safe # <<>> /\ safe[1] \in Digits
                THEN <<"N">> \o Strip(safe) ELSE Strip(safe)
    IN  IF pre # <<>> THEN pre ELSE <<"U","N","K","N","O","W","N">>

ToSafeEnumName(name) ==
    LET safe == Strip(CollapseLoop(EnumReplaceChain(name)))
        pre  == IF safe # <<>> /\ safe[1] \in Digits THEN <<"N">> \o safe ELSE safe
    IN  IF pre # <<>> THEN pre ELSE <<"U","N","K","N","O","W","N">>

\* a version of _to_safe_property_name that forgets the digit prefix
ToSafePropertyNameNoPrefix(name) ==
    LET safe == Strip(ReSubUnderscoreRuns(ReSubNonWord(name)))
    IN  IF safe # <<>> THEN safe ELSE <<"u","n","k","n","o","w","n">>

ToSafePropertyName(name) ==
    LET safe == Strip(ReSubUnderscoreRuns(ReSubNonWord(name)))
        pre  == IF safe # <<>> /\ safe[1] \in Digits
                THEN <<"p","r","o","p","_">> \o safe ELSE safe
    IN  IF pre # <<>> THEN pre ELSE <<"u","n","k","n","o","w","n">>

ToSafeClassName(name) ==
    LET safe == JoinCapitalized(name, <<>>)
        pre  == IF safe # <<>> /\ safe[1] \in Digits
                THEN <<"E","v","e","n","t">> \o safe ELSE safe
    IN  IF pre # <<>> THEN pre ELSE <<"U","n","k","n","o","w","n">>

\* [A-Za-z_][A-Za-z0-9_]*
IsValidIdentifier(s) ==
    /\ s # <<>>
    /\ s[1] \in AsciiLetters \cup {"_"}
    /\ \A i \in 1..Len(s) : s[i] \in AsciiLetters \cup Digits \cup {"_"}

\* ------------------------------------------------------------------------
\* State
\* ------------------------------------------------------------------------
VARIABLES
    rawName,      \* the raw name handed to the normalizers
    enumName,     \* result of _to_safe_enum_name(rawName)
    propName,     \* result of _to_safe_property_name(rawName)
    className,    \* result of _to_safe_class_name(rawName)
    normDone,     \* the normalizers that have been applied
    variant,          \* the generator version run: "doc_gen" or "generator"
    srcListRaises,    \* list_game_events() of the source raises
    srcEvents,        \* list_game_events() of the source, in its order
    srcBatches,       \* srcBatches[i]: what parse_event(srcEvents[i]) does
    genPc,            \* position of generate_all_files
    analysis_results, \* self.analysis_results
    written,          \* the files written so far, in order
    enumsCode,        \* member lines of the Event enum in enums.py
    dataclassCode,    \* event record classes in dataclass.py
    schemaCode,       \* event schema classes in schema.py
    validation_results, \* self.validation_results of the sampler validator
    valPc,              \* position of run_full_validation
    enum_events,        \* {event.value for event in Event}
    enum_cvars,         \* {cvar.value for cvar in ServerCVar}
    actual_events,      \* actual_events of the latest validate_events_enum
    summary,            \* what print_validation_summary printed last
    anomalies,          \* calls so far whose outcome was not the plain pass
    dvPc,                 \* position of main / validate_all of doc_validate.py
    demo_path,            \* the demo file main found, "None" if there is none
    analysis_json_exists, \* os.path.exists('analysis_results.json')
    demo_events,          \* list_game_events() of the demo
    demo_cvars,           \* list_updated_fields() of the demo
    analysis_data,        \* self.analysis_data
    dataclass_module,     \* the dataclasses validate_dataclasses found
    result,               \* self.result, a ValidationResult
    report,               \* what print_summary printed
    exit_code,            \* the process exit code, -1 while it runs
    dvAnomalies,          \* inputs so far that were not the plain pass
    coverage,             \* coverage computed by the latest ServerCVar check
    prev_coverage,        \* coverage computed by the check before it
    srcHeader,            \* what parse_header() of the source does
    header_fields,        \* keys of analysis_results['header_fields'], in dict order
    headerCode,           \* field names of the emitted Header dataclass, in order
    hdrPc,                \* position of the header part of the generator
    calls,                \* the add_* calls made on a ValidationResult driven call by call
    srcCvars,             \* what list_updated_fields() of the source does
    enumsText,            \* the lines of the text generate_enums_py returns
    category,             \* the key of the snapshot one batch is analysed for
    srcFrame,             \* what the parse call for that key does
    descriptor,           \* the descriptor stored under that key
    recordFields,         \* the fields of its record class in dataclass.py
    schemaFields,         \* the field rules of its schema class in schema.py
    colPc                 \* position of the analysis and emission for that key

normVars == <<rawName, enumName, propName, className, normDone>>

genVars == <<variant, srcListRaises, srcEvents, srcBatches, genPc,
             analysis_results, written, enumsCode, dataclassCode, schemaCode>>

valVars == <<validation_results, valPc, enum_events, enum_cvars,
             actual_events, summary, anomalies>>

dvVars == <<dvPc, demo_path, analysis_json_exists, demo_events, demo_cvars,
            analysis_data, dataclass_module, result, report, exit_code,
            dvAnomalies>>

covVars == <<coverage, prev_coverage>>

hdrVars == <<srcHeader, header_fields, headerCode, hdrPc>>

logVars == <<calls>>

cenVars == <<srcCvars, enumsText>>

colVars == <<category, srcFrame, descriptor, recordFields, schemaFields, colPc>>

vars == <<normVars, genVars, valVars, dvVars, covVars, hdrVars, logVars, cenVars, colVars>>

\* the variables each part of the model leaves alone
nonNormVars == <<genVars, valVars, dvVars, covVars, hdrVars,
                 logVars, cenVars, colVars>>
nonGenVars == <<normVars, valVars, dvVars, covVars, hdrVars,
                logVars, cenVars, colVars>>
nonValVars == <<normVars, genVars, dvVars, covVars, hdrVars,
                logVars, cenVars, colVars>>
nonDvVars == <<normVars, genVars, valVars, covVars, hdrVars,
               logVars, cenVars, colVars>>

\* ------------------------------------------------------------------------
\* Normalizers applied to one raw name
\* ------------------------------------------------------------------------
NormIdle ==
    /\ rawName = <<>>
    /\ enumName = <<>>
    /\ propName = <<>>
    /\ className = <<>>
    /\ normDone = {}

GenIdle ==
    /\ variant = "doc_gen"
    /\ srcListRaises = FALSE
    /\ srcEvents = <<>>
    /\ srcBatches = <<>>
    /\ genPc = "idle"
    /\ analysis_results = [events |-> <<>>]
    /\ written = <<>>
    /\ enumsCode = <<>>
    /\ dataclassCode = <<>>
    /\ schemaCode = <<>>

ValIdle ==
    /\ validation_results = <<>>
    /\ valPc = "idle"
    /\ enum_events = {}
    /\ enum_cvars = {}
    /\ actual_events = [state |-> "none", names |-> {}]
    /\ summary = [printed |-> FALSE]
    /\ anomalies = 0

HdrIdle ==
    /\ srcHeader = [raises |-> TRUE]
    /\ header_fields = <<>>
    /\ headerCode = <<>>
    /\ hdrPc = "idle"

DocValIdle ==
    /\ HdrIdle
    /\ dvPc = "idle"
    /\ demo_path = "None"
    /\ analysis_json_exists = FALSE
    /\ demo_events = <<>>
    /\ demo_cvars = {}
    /\ analysis_data = [loaded |-> FALSE, events |-> <<>>, server_cvars |-> {}]
    /\ dataclass_module = [checked |-> FALSE, classes |-> <<>>]
    /\ result = [passed |-> 0, failed |-> 0, warnings |-> 0,
                 errors |-> <<>>, warnings_list |-> <<>>, successes |-> <<>>]
    /\ report = [printed |-> FALSE]
    /\ exit_code = -1
    /\ dvAnomalies = 0
    /\ coverage = [defined |-> FALSE]
    /\ prev_coverage = [defined |-> FALSE]

LogIdle == calls = <<>>

EnumsTextIdle ==
    /\ srcCvars = [raises |-> TRUE]
    /\ enumsText = <<>>

ColumnsIdle ==
    /\ category = "events"
    /\ srcFrame = [kind |-> "raise"]
    /\ descriptor = [absent |-> TRUE]
    /\ recordFields = <<>>
    /\ schemaFields = <<>>
    /\ colPc = "idle"

\* field names of the source that the hand-written tick schema refers to
FieldNameSamples ==
    {<<"m","_","v","e","c"," ","+"," ","m","_","c","e","l","l">>,
     <<"m","_","a","n","g","E","y","e","A","n","g","l","e","s","[","0","]">>}

InitNorm ==
    /\ rawName \in Names \cup FieldNameSamples
    /\ LogIdle
    /\ EnumsTextIdle
    /\ ColumnsIdle
    /\ enumName = <<>>
    /\ propName = <<>>
    /\ className = <<>>
    /\ normDone = {}
    /\ GenIdle
    /\ ValIdle
    /\ DocValIdle

NormalizeEnum ==
    /\ "enum" \notin normDone
    /\ enumName' = ToSafeEnumName(rawName)
    /\ normDone' = normDone \cup {"enum"}
    /\ UNCHANGED <<rawName, propName, className>>
    /\ UNCHANGED nonNormVars

NormalizeProperty ==
    /\ "prop" \notin normDone
    /\ propName' = ToSafePropertyName(rawName)
    /\ normDone' = normDone \cup {"prop"}
    /\ UNCHANGED <<rawName, enumName, className>>
    /\ UNCHANGED nonNormVars

NormalizeClass ==
    /\ "class" \notin normDone
    /\ className' = ToSafeClassName(rawName)
    /\ normDone' = normDone \cup {"class"}
    /\ UNCHANGED <<rawName, enumName, propName>>
    /\ UNCHANGED nonNormVars

NextNorm ==
    \/ NormalizeEnum
    \/ NormalizeProperty
    \/ NormalizeClass

SpecNorm == InitNorm /\ [][NextNorm]_vars

\* ------------------------------------------------------------------------
\* Properties of the normalizers (checked under SpecNorm)
\* ------------------------------------------------------------------------
AllDigits(s) == s # <<>> /\ \A i \in 1..Len(s) : s[i] \in Digits

NoWordChar(s) == \A i \in 1..Len(s) : s[i] \notin AsciiLetters \cup Digits

\* C8: for every raw name, the enum-member normalization
\* _to_safe_enum_name(n) is non-empty and matches [A-Za-z_][A-Za-z0-9_]*
C8_EnumNameIsIdentifier ==
    "enum" \in normDone => IsValidIdentifier(enumName)

\* each character replaced on its own: '+' by 'plus', the five other special
\* characters by '_'
RECURSIVE MapSpecialChars(_)
MapSpecialChars(s) ==
    IF s = <<>> THEN <<>>
    ELSE (IF s[1] = "+" THEN <<"p","l","u","s">>
          ELSE IF s[1] \in {".", "[", "]", " ", "-"} THEN <<"_">>
          ELSE <<s[1]>>) \o MapSpecialChars(Tail(s))

\* the elements of s at the positions in keep, in their order
AtPositions(s, keep) ==
    [j \in 1..Cardinality(keep) |->
        s[CHOOSE i \in keep : Cardinality({k \in keep : k <= i}) = j]]

\* every run of underscores reduced to its first underscore
SqueezeUnderscores(s) ==
    AtPositions(s, {i \in 1..Len(s) : s[i] # "_" \/ i = 1 \/ s[i - 1] # "_"})

\* s from its first to its last character that is not an underscore
TrimUnderscores(s) ==
    LET inner == {i \in 1..Len(s) : s[i] # "_"}
    IN  AtPositions(s, {i \in 1..Len(s) :
                          \E a, b \in inner : a <= i /\ i <= b})

\* C16: the enum-member normalization replaces '+' by 'plus' and each of
\* '.', '[', ']', space, '-' by '_', reduces underscore runs to one
\* underscore and drops leading and trailing underscores (then the digit
\* prefix and the empty fallback apply); "m_vec + m_cell" becomes
\* "m_vec_plus_m_cell" and "m_angEyeAngles[0]" becomes "m_angEyeAngles_0"
C16_EnumNormalization ==
    "enum" \in normDone =>
        LET core == TrimUnderscores(SqueezeUnderscores(MapSpecialChars(rawName)))
        IN  /\ enumName = IF core = <<>> THEN <<"U","N","K","N","O","W","N">>
                          ELSE IF core[1] \in Digits THEN <<"N">> \o core
                          ELSE core
            /\ rawName = <<"m","_","v","e","c"," ","+"," ","m","_","c","e","l","l">>
                   => enumName = <<"m","_","v","e","c","_","p","l","u","s","_","m","_","c","e","l","l">>
            /\ rawName = <<"m","_","a","n","g","E","y","e","A","n","g","l","e","s","[","0","]">>
                   => enumName = <<"m","_","a","n","g","E","y","e","A","n","g","l","e","s","_","0">>

\* the field name with the '+' has been normalized
C16_Witness ==
    /\ "enum" \in normDone
    /\ rawName = <<"m","_","v","e","c"," ","+"," ","m","_","c","e","l","l">>
    /\ enumName = <<"m","_","v","e","c","_","p","l","u","s","_","m","_","c","e","l","l">>

\* C9: for every raw name, the property normalization and the type-name
\* normalization are non-empty and match [A-Za-z_][A-Za-z0-9_]*; an all-digit
\* name gets the prefix 'prop_' resp. 'Event', and a name without any letter
\* or digit becomes 'unknown' resp. 'Unknown'
C9_PropertyAndClassNameAreIdentifiers ==
    /\ "prop" \in normDone =>
          /\ IsValidIdentifier(propName)
          /\ AllDigits(rawName) => propName = <<"p","r","o","p","_">> \o rawName
          /\ NoWordChar(rawName) => propName = <<"u","n","k","n","o","w","n">>
    /\ "class" \in normDone =>
          /\ IsValidIdentifier(className)
          /\ AllDigits(rawName) => className = <<"E","v","e","n","t">> \o rawName
          /\ NoWordChar(rawName) => className = <<"U","n","k","n","o","w","n">>

\* a name that starts with a digit and holds a character outside
\* [A-Za-z0-9_] has been normalized for both kinds
C9_Witness ==
    /\ {"prop", "class"} \subseteq normDone
    /\ rawName = <<"1", ".", "a">>
    /\ propName = <<"p","r","o","p","_","1","_","a">>
    /\ className = <<"E","v","e","n","t","1","A">>


\* C30: enum-member and property normalization are idempotent: normalizing
\* the normalized name again gives the normalized name, also for names that
\* took the prefix 'N' or 'prop_' and for the fallbacks 'UNKNOWN' and
\* 'unknown'
C30_NormalizationIdempotent ==
    /\ "enum" \in normDone => ToSafeEnumName(enumName) = enumName
    /\ "prop" \in normDone => ToSafePropertyName(propName) = propName

\* a name that loses its leading underscore and then takes the digit prefix
\* has been normalized for both kinds
C30_Witness ==
    /\ {"enum", "prop"} \subseteq normDone
    /\ rawName = <<"_", "1">>
    /\ enumName = <<"N", "1">>
    /\ propName = <<"p","r","o","p","_","1">>

\* ------------------------------------------------------------------------
\* The source read by the generator
\* ------------------------------------------------------------------------
\* category names the source may report
EventPool == {<<"a","b">>, <<"a","-","b">>, <<"a","_","b">>}

\* column names a batch may carry
ColumnPool == {<<"a",".","b">>, <<"a","_","b">>}

\* sequences of distinct elements of S, of length lo..hi
DistinctSeqs(S, lo, hi) ==
    {q \in UNION {[1..n -> S] : n \in lo..hi} :
        \A i, j \in 1..Len(q) : i # j => q[i] # q[j]}

\* what parse_event(name) may do: raise, return an empty batch, or return a
\* batch with at least one column and one row
Batches ==
    {[kind |-> "raise"], [kind |-> "empty"]} \cup
    {[kind |-> "frame", columns |-> c, rows |-> r] :
        c \in DistinctSeqs(ColumnPool, 1, MaxCols), r \in 1..MaxRows}

\* ------------------------------------------------------------------------
\* analyze_demo: the events loop
\* ------------------------------------------------------------------------
\* one iteration of the loop over events with the exception propagating
\* instead of being caught
AnalyzeEventNoCatch(v, event, batch) ==
    IF batch.kind = "raise"
    THEN [raised |-> TRUE, entries |-> <<>>]
    ELSE IF batch.kind = "frame"
    THEN [raised |-> FALSE,
          entries |-> <<[name |-> event,
                         desc |-> [columns |-> batch.columns,
                                   row_count |-> batch.rows]]>>]
    ELSE [raised |-> FALSE, entries |-> <<>>]

\* one iteration of the loop over events: the try body and its handler.
\* raised: the exception leaves the loop; entries: what is stored in
\* results['events']
AnalyzeEvent(v, event, batch) ==
    IF batch.kind = "raise"
    THEN [raised |-> FALSE,
          entries |-> IF v = "doc_gen"
                      THEN <<[name |-> event,
                              desc |-> [error |-> "parse_event raised",
                                        columns |-> <<>>,
                                        row_count |-> 0]]>>
                      ELSE <<>>]
    ELSE IF batch.kind = "frame"
    THEN [raised |-> FALSE,
          entries |-> <<[name |-> event,
                         desc |-> IF v = "doc_gen"
                                  THEN [columns |-> batch.columns,
                                        row_count |-> batch.rows]
                                  ELSE [columns |-> batch.columns]]>>]
    ELSE [raised |-> FALSE, entries |-> <<>>]

\* the loop over events, from index i on
RECURSIVE AnalyzeEvents(_, _, _, _)
AnalyzeEvents(v, events, batches, i) ==
    IF i > Len(events) THEN [raised |-> FALSE, entries |-> <<>>]
    ELSE LET one == AnalyzeEvent(v, events[i], batches[i])
         IN  IF one.raised THEN [raised |-> TRUE, entries |-> <<>>]
             ELSE LET rest == AnalyzeEvents(v, events, batches, i + 1)
                  IN  [raised |-> rest.raised,
                       entries |-> one.entries \o rest.entries]

\* ------------------------------------------------------------------------
\* Emitters (the parts that render the events of the snapshot)
\* ------------------------------------------------------------------------
EventKeys(results) == {results.events[i].name : i \in 1..Len(results.events)}

\* member name of one event in the Event enum
EventEnumName(v, event) ==
    IF v = "doc_gen"
    THEN ReplaceChar(Upper(event), "-", <<"_">>)
    ELSE ToSafeEnumName(Upper(event))

\* the member lines of "class Event(Enum)": name and value of each line
EventEnumLines(v, results) ==
    LET events == Sorted(EventKeys(results))
    IN  [i \in 1..Len(events) |->
            [name |-> EventEnumName(v, events[i]), value |-> events[i]]]

\* the condition under which an event gets a class
EmitsEventClass(v, desc, file) ==
    IF v = "doc_gen"
    THEN "columns" \in DOMAIN desc /\ desc.columns # <<>>
    ELSE file = "schema.py" /\ "columns" \in DOMAIN desc

\* one class per event: its name, and per column the raw name and the
\* identifier it is emitted under
RECURSIVE EventClasses(_, _, _, _)
EventClasses(v, entries, file, i) ==
    IF i > Len(entries) THEN <<>>
    ELSE LET e == entries[i]
             suffix == IF file = "dataclass.py"
                       THEN <<"E","v","e","n","t">>
                       ELSE <<"S","c","h","e","m","a">>
             prefix == IF file = "schema.py" /\ v = "doc_gen"
                       THEN <<"E","v","e","n","t">> ELSE <<>>
             cls == [event |-> e.name,
                     class_name |-> prefix \o ToSafeClassName(e.name) \o suffix,
                     raw |-> e.desc.columns,
                     fields |-> [k \in 1..Len(e.desc.columns) |->
                                    ToSafePropertyName(e.desc.columns[k])]]
         IN  (IF EmitsEventClass(v, e.desc, file) THEN <<cls>> ELSE <<>>)
             \o EventClasses(v, entries, file, i + 1)

\* ------------------------------------------------------------------------
\* generate_all_files
\* ------------------------------------------------------------------------
InitGen ==
    /\ NormIdle
    /\ LogIdle
    /\ EnumsTextIdle
    /\ ColumnsIdle
    /\ ValIdle
    /\ DocValIdle
    /\ variant \in {"doc_gen", "generator"}
    /\ srcListRaises \in BOOLEAN
    /\ srcEvents \in DistinctSeqs(EventPool, 0, MaxEvents)
    /\ srcBatches \in [1..Len(srcEvents) -> Batches]
    /\ srcListRaises => srcEvents = <<>>
    /\ genPc = "start"
    /\ analysis_results = [events |-> <<>>]
    /\ written = <<>>
    /\ enumsCode = <<>>
    /\ dataclassCode = <<>>
    /\ schemaCode = <<>>

\* self.analyze_demo()
AnalyzeDemo ==
    /\ genPc = "start"
    /\ LET r == AnalyzeEvents(variant, srcEvents, srcBatches, 1)
       IN  IF srcListRaises \/ r.raised
           THEN /\ genPc' = "raised"
                /\ UNCHANGED analysis_results
           ELSE /\ genPc' = "analyzed"
                /\ analysis_results' = [events |-> r.entries]
    /\ UNCHANGED <<variant, srcListRaises, srcEvents, srcBatches, written,
                   enumsCode, dataclassCode, schemaCode>>
    /\ UNCHANGED nonGenVars

\* enums_code = self.generate_enums_py(); write enums.py
GenerateEnums ==
    /\ genPc = "analyzed"
    /\ enumsCode' = EventEnumLines(variant, analysis_results)
    /\ written' = Append(written, "enums.py")
    /\ genPc' = "enums_written"
    /\ UNCHANGED <<variant, srcListRaises, srcEvents, srcBatches,
                   analysis_results, dataclassCode, schemaCode>>
    /\ UNCHANGED nonGenVars

\* dataclass_code = self.generate_dataclass_py(); write dataclass.py
GenerateDataclass ==
    /\ genPc = "enums_written"
    /\ dataclassCode' =
          EventClasses(variant, analysis_results.events, "dataclass.py", 1)
    /\ written' = Append(written, "dataclass.py")
    /\ genPc' = "dataclass_written"
    /\ UNCHANGED <<variant, srcListRaises, srcEvents, srcBatches,
                   analysis_results, enumsCode, schemaCode>>
    /\ UNCHANGED nonGenVars

\* schema_code = self.generate_schema_py(); write schema.py
GenerateSchema ==
    /\ genPc = "dataclass_written"
    /\ schemaCode' =
          EventClasses(variant, analysis_results.events, "schema.py", 1)
    /\ written' = Append(written, "schema.py")
    /\ genPc' = "schema_written"
    /\ UNCHANGED <<variant, srcListRaises, srcEvents, srcBatches,
                   analysis_results, enumsCode, dataclassCode>>
    /\ UNCHANGED nonGenVars

\* json.dump(serializable_results, ...) into analysis_results.json
SaveAnalysis ==
    /\ genPc = "schema_written"
    /\ written' = Append(written, "analysis_results.json")
    /\ genPc' = "done"
    /\ UNCHANGED <<variant, srcListRaises, srcEvents, srcBatches,
                   analysis_results, enumsCode, dataclassCode, schemaCode>>
    /\ UNCHANGED nonGenVars

NextGen ==
    \/ AnalyzeDemo
    \/ GenerateEnums
    \/ GenerateDataclass
    \/ GenerateSchema
    \/ SaveAnalysis

SpecGen == InitGen /\ [][NextGen]_vars

\* ------------------------------------------------------------------------
\* Reading the emitted Event enumeration back
\* ------------------------------------------------------------------------
\* {event.value for event in Event} on the emitted enums.py: the class body
\* is executed by Python, which rejects a member name that is not an
\* identifier (SyntaxError) and a member name that is defined twice
\* (TypeError: attempted to reuse key); then no value is recovered
ParseEnumValues(lines) ==
    IF /\ \A i \in 1..Len(lines) : IsValidIdentifier(lines[i].name)
       /\ \A i, j \in 1..Len(lines) : i # j => lines[i].name # lines[j].name
    THEN [ok |-> TRUE, values |-> {lines[i].value : i \in 1..Len(lines)}]
    ELSE [ok |-> FALSE, values |-> {}]

\* ------------------------------------------------------------------------
\* Properties of the generator (checked under SpecGen)
\* ------------------------------------------------------------------------
OutputOrder == <<"enums.py", "dataclass.py", "schema.py", "analysis_results.json">>

DistinctRawGetDistinctFields(code) ==
    \A i \in 1..Len(code) :
        \A j, k \in 1..Len(code[i].raw) :
            code[i].raw[j] # code[i].raw[k] => code[i].fields[j] # code[i].fields[k]

\* C1: within one emission pass and one namespace, two distinct raw names are
\* never emitted under the same final identifier (the later one is suffixed,
\* or the emission fails)
C1_NoSilentCollision ==
    /\ DistinctRawGetDistinctFields(schemaCode)
    /\ DistinctRawGetDistinctFields(dataclassCode)

\* C2: when the fetch of one category raises, analyze_demo does not raise and
\* the snapshot holds, for that category, a descriptor with an error marker,
\* zero fields and row count 0
C2_FailedCategoryHasErrorDescriptor ==
    (genPc \notin {"idle", "start"} /\ ~srcListRaises) =>
        /\ genPc # "raised"
        /\ \A i \in 1..Len(srcEvents) :
              srcBatches[i].kind = "raise" =>
                 \E k \in 1..Len(analysis_results.events) :
                    LET e == analysis_results.events[k]
                    IN  /\ e.name = srcEvents[i]
                        /\ "error" \in DOMAIN e.desc
                        /\ e.desc.columns = <<>>
                        /\ "row_count" \in DOMAIN e.desc
                        /\ e.desc.row_count = 0

\* C3: when the source lists its categories, generate_all_files never raises,
\* whatever categories fail: it analyses first, then writes enums.py,
\* dataclass.py, schema.py and analysis_results.json in this order
C3_GenerateWritesAllOutputsInOrder ==
    (genPc # "idle" /\ ~srcListRaises) =>
        /\ genPc # "raised"
        /\ Len(written) <= Len(OutputOrder)
        /\ written = SubSeq(OutputOrder, 1, Len(written))
        /\ genPc = "start" => written = <<>>
        /\ genPc = "done" <=> written = OutputOrder

\* a run in which the fetch of a category raised has written all four files
C3_Witness ==
    /\ genPc = "done"
    /\ written = OutputOrder
    /\ \E i \in 1..Len(srcEvents) : srcBatches[i].kind = "raise"
    /\ \E i \in 1..Len(srcEvents) : srcBatches[i].kind = "frame"

\* C7: the member values read back from the emitted Event enumeration are
\* exactly the category names of the snapshot
C7_EventEnumRoundTrip ==
    genPc \in {"enums_written", "dataclass_written", "schema_written", "done"} =>
        /\ ParseEnumValues(enumsCode).ok
        /\ ParseEnumValues(enumsCode).values = EventKeys(analysis_results)

\* C15: after analyze_demo returned, the category names of the snapshot are
\* exactly the names the source listed
C15_SnapshotCoversEnumeratedCategories ==
    genPc \in {"analyzed", "enums_written", "dataclass_written",
               "schema_written", "done"} =>
        EventKeys(analysis_results) = {srcEvents[i] : i \in 1..Len(srcEvents)}

\* ------------------------------------------------------------------------
\* generate_enums_py: the whole text of enums.py
\* ------------------------------------------------------------------------
\* the number of names of the field catalog of the source
MaxCatalog == 2

\* the number of categories of the snapshot the enums are generated from
MaxEnumEvents == 1

\* names list_updated_fields() may return: the two names doc_gen.py emits on
\* its own, names with the prefix 'm_' (one of them holding 'Team'), a name
\* that starts with 'C' and holds a '.', and a name with neither
CvarPool ==
    {<<"-">>,
     <<"n","e","t","_","t","i","c","k">>,
     <<"m","_","i","H","e","a","l","t","h">>,
     <<"m","_","i","T","e","a","m","N","u","m">>,
     <<"C","C","S","T","e","a","m",".","m","_","i","S","c","o","r","e">>,
     <<"g","a","m","e","_","t","i","m","e">>}

StartsWith(s, prefix) ==
    Len(s) >= Len(prefix) /\ SubSeq(s, 1, Len(prefix)) = prefix

\* sub in s
Contains(s, sub) ==
    \E i \in 1..(Len(s) - Len(sub) + 1) : SubSeq(s, i, i + Len(sub) - 1) = sub

\* s.split('.')[0]
BeforeFirstDot(s) ==
    LET dots == {i \in 1..Len(s) : s[i] = "."}
    IN  IF dots = {} THEN s
        ELSE SubSeq(s, 1, (CHOOSE i \in dots : \A j \in dots : i <= j) - 1)

ClassLine(c) == [kind |-> "class", class |-> c]

MemberLine(c, name, value) ==
    [kind |-> "member", class |-> c, name |-> name, value |-> value]

CommentLine == [kind |-> "comment"]

BlankLine == [kind |-> "blank"]

\* 'class Scope(Enum)' with its four members and the blank line after them
ScopeLines ==
    <<ClassLine("Scope"),
      MemberLine("Scope", <<"P","E","R","_","T","I","C","K">>, <<"P","E","R","_","T","I","C","K">>),
      MemberLine("Scope", <<"P","E","R","_","R","O","U","N","D">>, <<"P","E","R","_","R","O","U","N","D">>),
      MemberLine("Scope", <<"G","L","O","B","A","L">>, <<"G","L","O","B","A","L">>),
      MemberLine("Scope", <<"E","V","E","N","T">>, <<"E","V","E","N","T">>),
      BlankLine>>

\* 'class Event(Enum)', one member per category of the snapshot, a blank line
EventLines(v, results) ==
    LET lines == EventEnumLines(v, results)
    IN  <<ClassLine("Event")>>
        \o [i \in 1..Len(lines) |->
              MemberLine("Event", lines[i].name, lines[i].value)]
        \o <<BlankLine>>

\* one member line per name of cvars, in its order
CvarMemberLines(cvars) ==
    [i \in 1..Len(cvars) |->
        MemberLine("ServerCVar", ToSafeEnumName(cvars[i]), cvars[i])]

\* the group doc_gen.py puts a name into
CvarGroup(cvar) ==
    IF StartsWith(cvar, <<"m", "_">>)
    THEN IF Contains(cvar, <<"t","e","a","m">>) \/ Contains(cvar, <<"T","e","a","m">>) THEN "team"
         ELSE IF Contains(cvar, <<"w","e","a","p","o","n">>) \/ Contains(cvar, <<"W","e","a","p","o","n">>)
         THEN "weapon"
         ELSE IF \/ Contains(cvar, <<"p","l","a","y","e","r">>)
                 \/ Contains(cvar, <<"P","l","a","y","e","r">>)
                 \/ Contains(cvar, <<"P","a","w","n">>)
         THEN "player"
         ELSE "entity"
    ELSE IF StartsWith(cvar, <<"C">>) THEN "class"
    ELSE "basic"

\* sorted(prefixed_groups.keys()) when every group is present
GroupNames == <<"class", "entity", "player", "team", "weapon">>

\* the lines of the groups from index i on: a blank line, the comment and
\* the members for each group that has a name
RECURSIVE GroupedCvarLines(_, _)
GroupedCvarLines(cvars, i) ==
    IF i > Len(GroupNames) THEN <<>>
    ELSE LET group == {c \in cvars : CvarGroup(c) = GroupNames[i]}
         IN  (IF group = {} THEN <<>>
              ELSE <<BlankLine, CommentLine>> \o CvarMemberLines(Sorted(group)))
             \o GroupedCvarLines(cvars, i + 1)

\* the key generator.py groups a name under
PrefixGroup(cvar) ==
    IF Contains(cvar, <<".">>) THEN BeforeFirstDot(cvar) ELSE <<"b","a","s","i","c">>

\* the lines of the prefixed groups of generator.py, for the prefixes in
\* their sorted order: the comment, the members, a blank line
RECURSIVE PrefixedCvarLines(_, _, _)
PrefixedCvarLines(cvars, prefixes, i) ==
    IF i > Len(prefixes) THEN <<>>
    ELSE LET group == {c \in cvars : PrefixGroup(c) = prefixes[i]}
         IN  (IF prefixes[i] = <<"b","a","s","i","c">> THEN <<>>
              ELSE <<CommentLine>> \o CvarMemberLines(Sorted(group))
                   \o <<BlankLine>>)
             \o PrefixedCvarLines(cvars, prefixes, i + 1)

\* 'class ServerCVar(Enum)' and what follows it up to the NType class
ServerCVarLines(v, cvars) ==
    IF v = "doc_gen"
    THEN <<ClassLine("ServerCVar"),
           MemberLine("ServerCVar", <<"N", "A">>, <<"-">>),
           MemberLine("ServerCVar", <<"n","e","t","_","t","i","c","k">>, <<"n","e","t","_","t","i","c","k">>)>>
         \o CvarMemberLines(Sorted({c \in cvars : CvarGroup(c) = "basic"}))
         \o GroupedCvarLines(cvars, 1)
         \o <<BlankLine, BlankLine>>
    ELSE LET basic == {c \in cvars : PrefixGroup(c) = <<"b","a","s","i","c">>}
         IN  <<ClassLine("ServerCVar")>>
             \o (IF basic = {} THEN <<>>
                 ELSE <<CommentLine>> \o CvarMemberLines(Sorted(basic))
                      \o <<BlankLine>>)
             \o PrefixedCvarLines(cvars,
                                  Sorted({PrefixGroup(c) : c \in cvars}), 1)
             \o <<BlankLine>>

\* 'class NType(Enum)' with its four members
NTypeLines ==
    <<ClassLine("NType"),
      MemberLine("NType", <<"C","L","I","E","N","T">>, <<"C","L","I","E","N","T">>),
      MemberLine("NType", <<"S","E","R","V","E","R">>, <<"S","E","R","V","E","R">>),
      MemberLine("NType", <<"O","B","S","E","R","V","E","R">>, <<"O","B","S","E","R","V","E","R">>),
      MemberLine("NType", <<"E","N","G","I","N","E">>, <<"E","N","G","I","N","E">>)>>

\* the text generate_enums_py returns, line by line
EnumsText(v, results) ==
    ScopeLines \o EventLines(v, results)
    \o ServerCVarLines(v, results.server_cvars) \o NTypeLines

\* the snapshots of the categories the generator may start the field
\* catalog block with: each category analysed from a batch with one column
\* and one row
EventSnapshots(v) ==
    {AnalyzeEvents(v, events,
                   [i \in 1..Len(events) |->
                       [kind |-> "frame",
                        columns |-> <<CHOOSE c \in ColumnPool : TRUE>>,
                        rows |-> 1]], 1).entries :
        events \in DistinctSeqs(EventPool, 0, MaxEnumEvents)}

InitEnums ==
    /\ NormIdle
    /\ LogIdle
    /\ ColumnsIdle
    /\ ValIdle
    /\ DocValIdle
    /\ variant \in {"doc_gen", "generator"}
    /\ srcListRaises = FALSE
    /\ srcEvents = <<>>
    /\ srcBatches = <<>>
    /\ genPc = "server_cvars"
    /\ analysis_results \in
          {[events |-> entries, server_cvars |-> {}] :
              entries \in EventSnapshots(variant)}
    /\ written = <<>>
    /\ enumsCode = <<>>
    /\ dataclassCode = <<>>
    /\ schemaCode = <<>>
    /\ srcCvars \in {[raises |-> TRUE]} \cup
                    {[raises |-> FALSE, names |-> n] :
                        n \in {c \in SUBSET CvarPool : Cardinality(c) <= MaxCatalog}}
    /\ enumsText = <<>>

\* the server CVars block of analyze_demo
AnalyzeServerCvars ==
    /\ genPc = "server_cvars"
    /\ analysis_results' =
          IF srcCvars.raises THEN analysis_results
          ELSE [analysis_results EXCEPT !.server_cvars = srcCvars.names]
    /\ genPc' = "catalog_analyzed"
    /\ UNCHANGED <<variant, srcListRaises, srcEvents, srcBatches, written,
                   enumsCode, dataclassCode, schemaCode>>
    /\ UNCHANGED <<srcCvars, enumsText>>
    /\ UNCHANGED <<normVars, valVars, dvVars, covVars, hdrVars, logVars,
                   colVars>>

\* enums_code = self.generate_enums_py()
GenerateEnumsText ==
    /\ genPc = "catalog_analyzed"
    /\ enumsText' = EnumsText(variant, analysis_results)
    /\ genPc' = "enums_generated"
    /\ UNCHANGED <<variant, srcListRaises, srcEvents, srcBatches, written,
                   analysis_results, enumsCode, dataclassCode, schemaCode>>
    /\ UNCHANGED srcCvars
    /\ UNCHANGED <<normVars, valVars, dvVars, covVars, hdrVars, logVars,
                   colVars>>

NextEnums ==
    \/ AnalyzeServerCvars
    \/ GenerateEnumsText

SpecEnums == InitEnums /\ [][NextEnums]_vars

\* the member lines of the ServerCVar class in the emitted text
ServerCVarMembers ==
    {i \in 1..Len(enumsText) :
        enumsText[i].kind = "member" /\ enumsText[i].class = "ServerCVar"}

\* C24: in the emitted ServerCVar enumeration every name of the snapshot's
\* field catalog is the value of exactly one member, and no value is
\* emitted twice
C24_CatalogNamesEmittedOnce ==
    genPc = "enums_generated" =>
        /\ \A c \in analysis_results.server_cvars :
              Cardinality({i \in ServerCVarMembers : enumsText[i].value = c}) = 1
        /\ \A i, j \in ServerCVarMembers :
              enumsText[i].value = enumsText[j].value => i = j

\* C25: every class header of the emitted text is followed by a member
\* line before the next class header or the end of the text
C25_NoEnumClassWithEmptyBody ==
    genPc = "enums_generated" =>
        \A i \in 1..Len(enumsText) :
            enumsText[i].kind = "class" =>
                \E j \in (i + 1)..Len(enumsText) :
                    /\ enumsText[j].kind = "member"
                    /\ \A k \in (i + 1)..(j - 1) : enumsText[k].kind # "class"

\* ------------------------------------------------------------------------
\* One batch: its analysis and the fields emitted for it (doc_gen.py)
\* ------------------------------------------------------------------------
\* str(dtype) of the columns a batch may hold, each with the family of the
\* declared element type
DeclaredTypes ==
    {[dtype |-> <<"i","n","t","6","4">>, family |-> "integer"],
     [dtype |-> <<"i","n","t","3","2">>, family |-> "integer"],
     [dtype |-> <<"u","i","n","t","6","4">>, family |-> "integer"],
     [dtype |-> <<"I","n","t","6","4">>, family |-> "integer"],
     [dtype |-> <<"f","l","o","a","t","6","4">>, family |-> "floating"],
     [dtype |-> <<"f","l","o","a","t","3","2">>, family |-> "floating"],
     [dtype |-> <<"b","o","o","l">>, family |-> "boolean"],
     [dtype |-> <<"o","b","j","e","c","t">>, family |-> "textual"],
     [dtype |-> <<"s","t","r","i","n","g">>, family |-> "textual"],
     [dtype |-> <<"d","a","t","e","t","i","m","e","6","4","[","n","s","]">>, family |-> "other"],
     [dtype |-> <<"c","a","t","e","g","o","r","y">>, family |-> "other"]}

FamilyOf(dtype) == (CHOOSE t \in DeclaredTypes : t.dtype = dtype).family

\* the declared types whose columns can hold a missing value
NullCapable ==
    {<<"I","n","t","6","4">>, <<"f","l","o","a","t","6","4">>, <<"f","l","o","a","t","3","2">>, <<"o","b","j","e","c","t">>, <<"s","t","r","i","n","g">>, <<"d","a","t","e","t","i","m","e","6","4","[","n","s","]">>, <<"c","a","t","e","g","o","r","y">>}

\* the declared types _get_data_ranges computes statistics for
RangedTypes == {<<"i","n","t","6","4">>, <<"i","n","t","3","2">>, <<"f","l","o","a","t","6","4">>, <<"f","l","o","a","t","3","2">>, <<"o","b","j","e","c","t">>}

\* names of the columns of a batch, by position
FrameColumnNames ==
    <<<<"t","i","c","k">>, <<"u","s","e","r","_","n","a","m","e">>, <<"X">>, <<"Y">>>>

\* a column whose statistics are all computed: an integer column and a
\* textual column, without missing values
PlainColumns ==
    {[dtype |-> <<"i","n","t","6","4">>, nulls |-> 0, fails |-> "none"],
     [dtype |-> <<"o","b","j","e","c","t">>, nulls |-> 0, fails |-> "none"]}

\* a column of a batch with rows rows: its declared type, the number of
\* missing values and the statistic whose computation raises. nunique()
\* raises on a column of unhashable values, which has the type object
GeneralColumns(rows) ==
    {[dtype |-> t.dtype, nulls |-> n, fails |-> f] :
        t \in DeclaredTypes, n \in 0..rows,
        f \in {"none", "ranges", "top_values", "distinct"}}
    \ {c \in [dtype : {t.dtype : t \in DeclaredTypes}, nulls : 0..rows,
              fails : {"none", "ranges", "top_values", "distinct"}] :
          \/ c.nulls > 0 /\ c.dtype \notin NullCapable
          \/ c.fails = "ranges" /\ c.dtype \notin RangedTypes
          \/ c.fails = "distinct" /\ c.dtype # <<"o","b","j","e","c","t">>}

\* the batches a parse call may return: up to MaxCols columns, of which one
\* is any column and the others are plain, and 1..MaxRows rows
Frames ==
    UNION {{[kind |-> "frame", rows |-> r,
             columns |-> [i \in 1..n |-> IF i = k THEN g ELSE plain[i]]] :
               plain \in [1..n -> PlainColumns], k \in 1..n,
               g \in GeneralColumns(r)} :
           n \in 1..MaxCols, r \in 1..MaxRows}

\* _get_data_ranges for one column
DataRangesOf(col) ==
    IF col.dtype \in {<<"i","n","t","6","4">>, <<"i","n","t","3","2">>, <<"f","l","o","a","t","6","4">>, <<"f","l","o","a","t","3","2">>}
    THEN IF col.fails = "ranges"
         THEN [error |-> "Could not compute stats"]
         ELSE [stats |-> "min max mean std"]
    ELSE IF col.dtype = <<"o","b","j","e","c","t">>
    THEN IF col.fails = "ranges"
         THEN [error |-> "Could not compute string stats"]
         ELSE [stats |-> "min_length max_length avg_length"]
    ELSE [skipped |-> TRUE]

\* _get_column_stats for one column of a batch with rows rows
ColumnStatsOf(col, rows) ==
    IF col.fails \in {"top_values", "distinct"}
    THEN [error |-> "str(e)"]
    ELSE [dtype |-> col.dtype,
          non_null_count |-> rows - col.nulls,
          null_percentage |-> [num |-> col.nulls * 100, den |-> rows]]

\* the descriptor stored when the try block raises
ErrorDescriptor ==
    [error |-> "str(e)", columns |-> <<>>, dtypes |-> <<>>, row_count |-> 0]

\* the descriptor the try block builds from a batch that is not empty; the
\* entries of the mapping are evaluated in their order, and an exception
\* leaves the block
FrameDescriptor(frame) ==
    LET cols == frame.columns
    IN  IF \E i \in 1..Len(cols) : cols[i].fails = "distinct"
        THEN ErrorDescriptor
        ELSE [columns |-> [i \in 1..Len(cols) |-> FrameColumnNames[i]],
              dtypes |-> [i \in 1..Len(cols) |-> cols[i].dtype],
              row_count |-> frame.rows,
              null_counts |-> [i \in 1..Len(cols) |-> cols[i].nulls],
              data_ranges |-> [i \in 1..Len(cols) |-> DataRangesOf(cols[i])],
              column_stats |->
                  [i \in 1..Len(cols) |-> ColumnStatsOf(cols[i], frame.rows)]]

\* what analyze_demo stores under the key c for what the parse call did:
\* an event with an empty batch gets no entry, another key a descriptor
\* with a note
CategoryDescriptor(c, frame) ==
    IF frame.kind = "raise" THEN ErrorDescriptor
    ELSE IF frame.kind = "empty"
    THEN IF c = "events" THEN [absent |-> TRUE]
         ELSE [columns |-> <<>>, dtypes |-> <<>>, row_count |-> 0,
               note |-> "DataFrame is empty"]
    ELSE FrameDescriptor(frame)

\* _map_dtype_to_python_type
MapDtypeToPythonType(dtype_str) ==
    LET d == Lower(dtype_str)
    IN  IF Contains(d, <<"i","n","t">>) THEN "int"
        ELSE IF Contains(d, <<"f","l","o","a","t">>) THEN "float"
        ELSE IF Contains(d, <<"b","o","o","l">>) THEN "bool"
        ELSE IF Contains(d, <<"u","i","n","t","6","4">>) THEN "int"
        ELSE IF Contains(d, <<"o","b","j","e","c","t">>) \/ Contains(d, <<"s","t","r","i","n","g">>) THEN "str"
        ELSE "str"

\* _map_dtype_to_pandera_field: the schema type and the nullable flag
MapDtypeToPanderaField(dtype_str) ==
    LET d == Lower(dtype_str)
        is_nullable == Contains(d, <<"o","b","j","e","c","t">>)
    IN  IF Contains(d, <<"i","n","t">>)
        THEN IF Contains(d, <<"6", "4">>)
             THEN [type |-> "pa.Int64", nullable |-> is_nullable]
             ELSE IF Contains(d, <<"3", "2">>)
             THEN [type |-> "pa.Int32", nullable |-> is_nullable]
             ELSE [type |-> "pa.Int32", nullable |-> is_nullable]
        ELSE IF Contains(d, <<"f","l","o","a","t">>)
        THEN IF Contains(d, <<"6", "4">>)
             THEN [type |-> "pa.Float64", nullable |-> is_nullable]
             ELSE IF Contains(d, <<"3", "2">>)
             THEN [type |-> "pa.Float32", nullable |-> is_nullable]
             ELSE [type |-> "float", nullable |-> is_nullable]
        ELSE IF Contains(d, <<"b","o","o","l">>)
        THEN [type |-> "bool", nullable |-> is_nullable]
        ELSE IF Contains(d, <<"u","i","n","t","6","4">>)
        THEN [type |-> "pa.UInt64", nullable |-> is_nullable]
        ELSE IF Contains(d, <<"o","b","j","e","c","t">>) \/ Contains(d, <<"s","t","r","i","n","g">>)
        THEN [type |-> "str", nullable |-> TRUE]
        ELSE [type |-> "str", nullable |-> TRUE]

\* _map_dtype_to_pandera: a lookup of the whole type name
MapDtypeToPandera(dtype) ==
    IF dtype \in {<<"i","n","t","6","4">>, <<"i","n","t","3","2">>} THEN "int"
    ELSE IF dtype \in {<<"f","l","o","a","t","6","4">>, <<"f","l","o","a","t","3","2">>} THEN "float"
    ELSE IF dtype = <<"o","b","j","e","c","t">> THEN "str"
    ELSE IF dtype = <<"b","o","o","l">> THEN "bool"
    ELSE IF dtype = <<"d","a","t","e","t","i","m","e","6","4","[","n","s","]">> THEN "pd.Timestamp"
    ELSE "Any"

\* whether a class is emitted for a descriptor
EmitsClassFor(desc) == "columns" \in DOMAIN desc /\ desc.columns # <<>>

\* the field lines of the record class of generate_dataclass_py
RecordFieldsOf(desc) ==
    IF EmitsClassFor(desc)
    THEN [i \in 1..Len(desc.columns) |->
            [name |-> ToSafePropertyName(desc.columns[i]),
             type |-> MapDtypeToPythonType(desc.dtypes[i])]]
    ELSE <<>>

\* the field rules of the schema class of generate_schema_py
SchemaFieldsOf(desc) ==
    IF EmitsClassFor(desc)
    THEN [i \in 1..Len(desc.columns) |->
            [name |-> ToSafePropertyName(desc.columns[i]),
             type |-> MapDtypeToPanderaField(desc.dtypes[i]).type,
             nullable |-> MapDtypeToPanderaField(desc.dtypes[i]).nullable]]
    ELSE <<>>

InitColumns ==
    /\ NormIdle
    /\ LogIdle
    /\ EnumsTextIdle
    /\ GenIdle
    /\ ValIdle
    /\ DocValIdle
    /\ category \in {"events", "grenades_schema"}
    /\ srcFrame \in {[kind |-> "raise"], [kind |-> "empty"]} \cup Frames
    /\ descriptor = [absent |-> TRUE]
    /\ recordFields = <<>>
    /\ schemaFields = <<>>
    /\ colPc = "analyze"

\* what the steps for one key leave alone
ColumnsFrame ==
    /\ UNCHANGED <<category, srcFrame>>
    /\ UNCHANGED <<normVars, genVars, valVars, dvVars, covVars, hdrVars,
                   logVars, cenVars>>

\* the try block of analyze_demo for one key
AnalyzeCategory ==
    /\ colPc = "analyze"
    /\ descriptor' = CategoryDescriptor(category, srcFrame)
    /\ colPc' = "analyzed"
    /\ UNCHANGED <<recordFields, schemaFields>>
    /\ ColumnsFrame

\* the record class of the key in generate_dataclass_py
GenerateRecordClass ==
    /\ colPc = "analyzed"
    /\ recordFields' = RecordFieldsOf(descriptor)
    /\ colPc' = "dataclass_generated"
    /\ UNCHANGED <<descriptor, schemaFields>>
    /\ ColumnsFrame

\* the schema class of the key in generate_schema_py
GenerateSchemaClass ==
    /\ colPc = "dataclass_generated"
    /\ schemaFields' = SchemaFieldsOf(descriptor)
    /\ colPc' = "schema_generated"
    /\ UNCHANGED <<descriptor, recordFields>>
    /\ ColumnsFrame

NextColumns ==
    \/ AnalyzeCategory
    \/ GenerateRecordClass
    \/ GenerateSchemaClass

SpecColumns == InitColumns /\ [][NextColumns]_vars

\* C21: the field rule of a column is marked nullable iff the analyzer
\* counted at least one null in that column, whatever its declared type
C21_NullableIffNullObserved ==
    (colPc = "schema_generated" /\ EmitsClassFor(descriptor)) =>
        \A i \in 1..Len(schemaFields) :
            schemaFields[i].nullable <=> descriptor.null_counts[i] > 0

\* C22: when the computation of a statistic of one column raises, the
\* descriptor of the key is no error marker, it keeps the column list and
\* the row count, the column holds an error note where the statistic
\* belongs, and the statistics of the other columns are those of a batch
\* without the failure
C22_StatisticFailureStaysOnItsField ==
    (/\ colPc \in {"analyzed", "dataclass_generated", "schema_generated"}
     /\ srcFrame.kind = "frame"
     /\ \E k \in 1..Len(srcFrame.columns) : srcFrame.columns[k].fails # "none") =>
        LET cols == srcFrame.columns
            k == CHOOSE i \in 1..Len(cols) : cols[i].fails # "none"
        IN  /\ "error" \notin DOMAIN descriptor
            /\ Len(descriptor.columns) = Len(cols)
            /\ descriptor.row_count = srcFrame.rows
            /\ \/ "error" \in DOMAIN descriptor.data_ranges[k]
               \/ "error" \in DOMAIN descriptor.column_stats[k]
            /\ \A i \in 1..Len(cols) \ {k} :
                  /\ descriptor.null_counts[i] = cols[i].nulls
                  /\ "error" \notin DOMAIN descriptor.data_ranges[i]
                  /\ "error" \notin DOMAIN descriptor.column_stats[i]

\* the types the emitters write for the known kinds
KnownKindTypes ==
    {"int", "float", "bool", "str", "bytes", "pa.Int32", "pa.Int64",
     "pa.UInt64", "pa.Float32", "pa.Float64"}

\* C23: a column whose declared type is outside the integer, floating-point,
\* boolean, textual and binary families is emitted with the unknown kind by
\* every type mapping: never with the type of a known kind
C23_OtherTypesMapToUnknown ==
    (colPc = "schema_generated" /\ EmitsClassFor(descriptor)) =>
        \A i \in 1..Len(descriptor.columns) :
            FamilyOf(descriptor.dtypes[i]) = "other" =>
                /\ recordFields[i].type \notin KnownKindTypes
                /\ schemaFields[i].type \notin KnownKindTypes
                /\ MapDtypeToPandera(descriptor.dtypes[i]) = "Any"

\* C27: a column whose declared type name holds 'uint64' gets the unsigned
\* schema type pa.UInt64 in its field rule
C27_Uint64MapsToUnsigned ==
    (colPc = "schema_generated" /\ EmitsClassFor(descriptor)) =>
        \A i \in 1..Len(descriptor.columns) :
            Contains(Lower(descriptor.dtypes[i]), <<"u","i","n","t","6","4">>) =>
                schemaFields[i].type = "pa.UInt64"

\* ------------------------------------------------------------------------
\* The sampler validator (sampler.py): data
\* ------------------------------------------------------------------------
Categories ==
    {"header", "events", "event_schemas", "server_cvars", "grenades",
     "voice_data", "player_info", "item_drops", "skins", "ticks"}

\* validation_methods of run_full_validation, in its order
ValidationMethods ==
    <<"validate_header", "validate_events_enum", "validate_event_schemas",
      "validate_server_cvars", "validate_grenades", "validate_voice_data",
      "validate_other_methods", "validate_ticks_parsing">>

\* self.validation_results as __init__ builds it
InitialResults ==
    [c \in Categories |->
        IF c = "events"
        THEN [status |-> "pending", issues |-> <<>>,
              missing_events |-> {}, extra_events |-> {}]
        ELSE IF c = "server_cvars"
        THEN [status |-> "pending", issues |-> <<>>,
              missing_cvars |-> {}, extra_cvars |-> {}]
        ELSE [status |-> "pending", issues |-> <<>>]]

\* one issue message: its fixed text, what it is about, the names and the
\* count formatted into it
Issue(msg, about, names, count) ==
    [msg |-> msg, about |-> about, names |-> names, count |-> count]

SetStatus(vr, c, st) == [vr EXCEPT ![c].status = st]

AddIssue(vr, c, issue) == [vr EXCEPT ![c].issues = Append(@, issue)]

\* the except branch of a check: the message is appended, the status is error
CheckError(vr, c, msg) ==
    SetStatus(AddIssue(vr, c, Issue(msg, c, {}, 0)), c, "error")

\* names of the model
EventUniverse == {"round_start", "bomb_planted"}

CvarUniverse == {"m_iHealth", "m_ArmorValue"}

\* the member values of the generated enumerations the validator imports
EnumEventSamples == {{"round_start"}}

EnumCvarSamples == {{"-", "m_iHealth"}}

ExpectedHeaderFields ==
    {"server_name", "demo_file_stamp", "network_protocol", "map_name",
     "fullpackets_version", "allow_clientside_entities",
     "allow_clientside_particles", "demo_version_name", "demo_version_guid",
     "client_name", "game_directory", "addons"}

\* what parse_header() may do
HeaderInputs ==
    {[raises |-> TRUE]} \cup
    {[raises |-> FALSE, keys |-> k] :
        k \in {ExpectedHeaderFields,
               ExpectedHeaderFields \ {"addons"},
               ExpectedHeaderFields \cup {"patch_version"},
               (ExpectedHeaderFields \ {"addons"}) \cup {"patch_version"}}}

\* what list_game_events() / list_updated_fields() may do
NameListInputs(universe) ==
    {[raises |-> TRUE]} \cup
    {[raises |-> FALSE, names |-> n] : n \in SUBSET universe}

\* what the event_schemas check reads: the event list, per event what
\* parse_event does, and what parse_events does
SchemaEventKinds == {"frame", "frame_no_tick", "empty", "raise"}

EventSchemaReads ==
    {[raises |-> FALSE, events |-> ev, kinds |-> k, multi_raises |-> m] :
        ev \in DistinctSeqs(EventUniverse, 0, 1),
        k \in UNION {[1..n -> SchemaEventKinds] : n \in 0..1},
        m \in BOOLEAN}

EventSchemaInputs ==
    {[raises |-> TRUE]} \cup {x \in EventSchemaReads : Len(x.kinds) = Len(x.events)}

GrenadeColumns == {"tick", "thrower_steamid", "X", "Y", "Z", "grenade_type"}

\* what parse_grenades() may do; late_raise: an exception while the grenade
\* types and the sample rows are printed
GrenadeInputs ==
    {[kind |-> "raise"], [kind |-> "empty"]} \cup
    {[kind |-> "frame", columns |-> c, late_raise |-> l] :
        c \in {GrenadeColumns,
               GrenadeColumns \ {"thrower_steamid"},
               GrenadeColumns \ {"Z"},
               GrenadeColumns \ {"thrower_steamid", "Z"}},
        l \in BOOLEAN}

\* parse_voice: absent, raising, returning clips, returning nothing
VoiceInputs == {"no_method", "raise", "clips", "no_clips"}

\* methods_to_test of validate_other_methods
MethodsToTest == <<"player_info", "item_drops", "skins">>

\* per method: a DataFrame, another value, no such method, an exception
OtherKinds == {"frame", "other", "no_method", "raise"}

\* what list_updated_fields() and parse_ticks() may do
TicksInputs ==
    {[kind |-> "raise"], [kind |-> "empty"]} \cup
    {[kind |-> "frame", columns |-> c] :
        c \in {{"tick", "steamid", "m_iHealth"}, {"tick", "m_iHealth"}}}

\* ------------------------------------------------------------------------
\* The sampler validator: what each check does to validation_results
\* ------------------------------------------------------------------------
HeaderResults(vr, h) ==
    IF h.raises THEN CheckError(vr, "header", "Header validation failed")
    ELSE LET missing_fields == ExpectedHeaderFields \ h.keys
             extra_fields == h.keys \ ExpectedHeaderFields
             r1 == IF missing_fields # {}
                   THEN AddIssue(vr, "header",
                          Issue("Missing fields in Header dataclass", "header",
                                missing_fields, 0))
                   ELSE vr
             r2 == IF extra_fields # {}
                   THEN AddIssue(r1, "header",
                          Issue("Extra fields not in Header dataclass", "header",
                                extra_fields, 0))
                   ELSE r1
         IN  IF missing_fields = {} /\ extra_fields = {}
             THEN SetStatus(r2, "header", "passed")
             ELSE SetStatus(r2, "header", "failed")

\* validate_events_enum with the success condition of doc_validate.py
\* (neither missing nor extra names)
EventsEnumResultsStrict(vr, enum, in) ==
    IF in.raises THEN CheckError(vr, "events", "Events enum validation failed")
    ELSE LET missing_events == in.names \ enum
             extra_events == enum \ in.names
             r1 == IF missing_events # {}
                   THEN AddIssue([vr EXCEPT !["events"].missing_events = missing_events],
                          "events",
                          Issue("Missing events from enum", "events", {},
                                Cardinality(missing_events)))
                   ELSE vr
             r2 == IF extra_events # {}
                   THEN [r1 EXCEPT !["events"].extra_events = extra_events]
                   ELSE r1
         IN  IF missing_events = {} /\ extra_events = {}
             THEN SetStatus(r2, "events", "passed")
             ELSE SetStatus(r2, "events", "failed")

EventsEnumResults(vr, enum, in) ==
    IF in.raises THEN CheckError(vr, "events", "Events enum validation failed")
    ELSE LET missing_events == in.names \ enum
             extra_events == enum \ in.names
             r1 == IF missing_events # {}
                   THEN AddIssue([vr EXCEPT !["events"].missing_events = missing_events],
                          "events",
                          Issue("Missing events from enum", "events", {},
                                Cardinality(missing_events)))
                   ELSE vr
             r2 == IF extra_events # {}
                   THEN [r1 EXCEPT !["events"].extra_events = extra_events]
                   ELSE r1
         IN  IF missing_events = {}
             THEN SetStatus(r2, "events", "passed")
             ELSE SetStatus(r2, "events", "failed")

\* the number of events the event_schemas check parses one by one
SchemaEventLimit == 10

\* issues_found of the loop over actual_events[:10], from index i on
RECURSIVE SchemaIssues(_, _, _)
SchemaIssues(events, kinds, i) ==
    IF i > Len(events) \/ i > SchemaEventLimit THEN <<>>
    ELSE (CASE kinds[i] = "raise" ->
                 <<Issue("Failed to parse", events[i], {}, 0)>>
            [] kinds[i] = "frame_no_tick" ->
                 <<Issue("missing base columns", events[i], {"tick"}, 0)>>
            [] OTHER -> <<>>)
         \o SchemaIssues(events, kinds, i + 1)

\* the status validate_event_schemas stores when issues were found
SchemaIssuesStatus == "partial"

EventSchemasResults(vr, in) ==
    IF in.raises
    THEN CheckError(vr, "event_schemas", "Event schemas validation failed")
    ELSE LET issues_found ==
                 SchemaIssues(in.events, in.kinds, 1) \o
                 (IF in.multi_raises
                  THEN <<Issue("Multiple events parsing failed", "event_schemas", {}, 0)>>
                  ELSE <<>>)
             r1 == [vr EXCEPT !["event_schemas"].issues = issues_found]
         IN  IF issues_found = <<>>
             THEN SetStatus(r1, "event_schemas", "passed")
             ELSE SetStatus(r1, "event_schemas", SchemaIssuesStatus)

ServerCvarsResults(vr, enum, in) ==
    IF in.raises THEN CheckError(vr, "server_cvars", "ServerCVar validation failed")
    ELSE LET missing_cvars == in.names \ enum
             extra_cvars == enum \ in.names
             r1 == IF missing_cvars # {}
                   THEN AddIssue([vr EXCEPT !["server_cvars"].missing_cvars = missing_cvars],
                          "server_cvars",
                          Issue("Missing cvars from enum", "server_cvars", {},
                                Cardinality(missing_cvars)))
                   ELSE vr
             r2 == IF extra_cvars # {}
                   THEN [r1 EXCEPT !["server_cvars"].extra_cvars = extra_cvars]
                   ELSE r1
         IN  IF missing_cvars = {}
             THEN SetStatus(r2, "server_cvars", "passed")
             ELSE SetStatus(r2, "server_cvars", "failed")

\* validate_grenades putting the category back to pending when there is no
\* grenade data
GrenadesResultsResets(vr, in) ==
    IF in.kind = "raise" THEN CheckError(vr, "grenades", "Grenades validation failed")
    ELSE IF in.kind = "frame"
    THEN SetStatus(vr, "grenades", "passed")
    ELSE SetStatus(vr, "grenades", "pending")

GrenadesResults(vr, in) ==
    IF in.kind = "raise" THEN CheckError(vr, "grenades", "Grenades validation failed")
    ELSE IF in.kind = "frame"
    THEN LET missing_columns == {"tick", "thrower_steamid"} \ in.columns
             missing_coordinates == {"X", "Y", "Z"} \ in.columns
             r1 == IF missing_columns # {}
                   THEN AddIssue(vr, "grenades",
                          Issue("Missing expected columns", "grenades",
                                missing_columns, 0))
                   ELSE vr
             r2 == IF missing_coordinates # {}
                   THEN AddIssue(r1, "grenades",
                          Issue("Missing coordinate columns", "grenades",
                                missing_coordinates, 0))
                   ELSE r1
         IN  IF in.late_raise
             THEN CheckError(r2, "grenades", "Grenades validation failed")
             ELSE IF missing_columns = {} /\ missing_coordinates = {}
             THEN SetStatus(r2, "grenades", "passed")
             ELSE SetStatus(r2, "grenades", "failed")
    ELSE SetStatus(vr, "grenades", "no_data")

\* validate_voice_data storing a misspelt status for the missing feature
VoiceDataResultsMisspelt(vr, in) ==
    CASE in = "no_method" -> SetStatus(vr, "voice_data", "unavailable")
      [] in = "raise" -> CheckError(vr, "voice_data", "Voice data validation failed")
      [] in = "clips" -> SetStatus(vr, "voice_data", "passed")
      [] OTHER -> SetStatus(vr, "voice_data", "no_data")

VoiceDataResults(vr, in) ==
    CASE in = "no_method" -> SetStatus(vr, "voice_data", "not_available")
      [] in = "raise" -> CheckError(vr, "voice_data", "Voice data validation failed")
      [] in = "clips" -> SetStatus(vr, "voice_data", "passed")
      [] OTHER -> SetStatus(vr, "voice_data", "no_data")

\* one iteration of the loop of validate_other_methods that stores nothing
\* for a method the parser lacks
OtherMethodResultsSkipsMissing(vr, method_name, kind) ==
    CASE kind = "frame" -> SetStatus(vr, method_name, "passed")
      [] kind = "other" -> SetStatus(vr, method_name, "warning")
      [] kind = "no_method" -> vr
      [] OTHER -> CheckError(vr, method_name, "failed")

\* one iteration of the loop of validate_other_methods
OtherMethodResults(vr, method_name, kind) ==
    CASE kind = "frame" -> SetStatus(vr, method_name, "passed")
      [] kind = "other" -> SetStatus(vr, method_name, "warning")
      [] kind = "no_method" -> SetStatus(vr, method_name, "not_found")
      [] OTHER -> CheckError(vr, method_name, "failed")

\* the loop over methods_to_test, from index i on
RECURSIVE OtherMethodsResults(_, _, _)
OtherMethodsResults(vr, kinds, i) ==
    IF i > Len(MethodsToTest) THEN vr
    ELSE OtherMethodsResults(
            OtherMethodResults(vr, MethodsToTest[i], kinds[i]), kinds, i + 1)

\* validate_ticks_parsing writing its error into the header category as well
TicksResultsMarksHeader(vr, in) ==
    IF in.kind = "raise"
    THEN CheckError(CheckError(vr, "ticks", "Ticks validation failed"),
                    "header", "Ticks validation failed")
    ELSE IF in.kind = "frame"
    THEN LET missing_base == {"tick", "steamid"} \ in.columns
         IN  IF missing_base # {}
             THEN SetStatus(
                    AddIssue(vr, "ticks",
                       Issue("Missing base columns", "ticks", missing_base, 0)),
                    "ticks", "failed")
             ELSE SetStatus(vr, "ticks", "passed")
    ELSE SetStatus(vr, "ticks", "no_data")

TicksResults(vr, in) ==
    IF in.kind = "raise" THEN CheckError(vr, "ticks", "Ticks validation failed")
    ELSE IF in.kind = "frame"
    THEN LET missing_base == {"tick", "steamid"} \ in.columns
         IN  IF missing_base # {}
             THEN SetStatus(
                    AddIssue(vr, "ticks",
                       Issue("Missing base columns", "ticks", missing_base, 0)),
                    "ticks", "failed")
             ELSE SetStatus(vr, "ticks", "passed")
    ELSE SetStatus(vr, "ticks", "no_data")

\* print_validation_summary: the four counters and the closing messages
SummaryOf(vr) ==
    LET passed == Cardinality({c \in Categories : vr[c].status = "passed"})
        failed == Cardinality({c \in Categories : vr[c].status = "failed"})
        warnings == Cardinality({c \in Categories :
                        vr[c].status \in {"warning", "partial", "no_data"}})
        errors == Cardinality(Categories) - passed - failed - warnings
    IN  [printed |-> TRUE, passed |-> passed, failed |-> failed,
         warnings |-> warnings, errors |-> errors,
         messages |->
            (IF failed = 0 /\ errors = 0 THEN {"All critical validations passed"}
             ELSE IF failed > 0 THEN {"validations failed"} ELSE {})
            \cup (IF errors > 0 THEN {"validations had errors"} ELSE {})]

\* ------------------------------------------------------------------------
\* The sampler validator: run_full_validation and the public checks
\* ------------------------------------------------------------------------
\* A check runs as the next step of run_full_validation, or is called again
\* once run_full_validation has returned.  At most MaxAnomalies calls of one
\* behaviour see the source deviate from the plain passing answer.
InitVal ==
    /\ NormIdle
    /\ LogIdle
    /\ EnumsTextIdle
    /\ ColumnsIdle
    /\ GenIdle
    /\ DocValIdle
    /\ validation_results = InitialResults
    /\ valPc = ValidationMethods[1]
    /\ enum_events \in EnumEventSamples
    /\ enum_cvars \in EnumCvarSamples
    /\ actual_events = [state |-> "none", names |-> {}]
    /\ summary = [printed |-> FALSE]
    /\ anomalies = 0

\* run_full_validation giving up the remaining checks once a category is in
\* error
AfterMethodStopsOnError(method) ==
    IF valPc = "returned" THEN "returned"
    ELSE IF \E c \in Categories : validation_results[c].status = "error"
    THEN "summary"
    ELSE LET i == CHOOSE k \in 1..Len(ValidationMethods) : ValidationMethods[k] = method
         IN  IF i = Len(ValidationMethods) THEN "summary" ELSE ValidationMethods[i + 1]

\* where the validator continues after the check named method
AfterMethod(method) ==
    IF valPc = "returned" THEN "returned"
    ELSE LET i == CHOOSE k \in 1..Len(ValidationMethods) : ValidationMethods[k] = method
         IN  IF i = Len(ValidationMethods) THEN "summary" ELSE ValidationMethods[i + 1]

\* bookkeeping shared by the checks: position, anomaly budget, stale summary
CheckStep(method, cost) ==
    /\ valPc \in {method, "returned"}
    /\ anomalies + cost <= MaxAnomalies
    /\ anomalies' = anomalies + cost
    /\ valPc' = AfterMethod(method)
    /\ summary' = [printed |-> FALSE]
    /\ UNCHANGED <<enum_events, enum_cvars>>
    /\ UNCHANGED nonValVars

validate_header ==
    \E h \in HeaderInputs :
        /\ CheckStep("validate_header",
              IF ~h.raises /\ h.keys = ExpectedHeaderFields THEN 0 ELSE 1)
        /\ validation_results' = HeaderResults(validation_results, h)
        /\ UNCHANGED actual_events

validate_events_enum ==
    \E in \in NameListInputs(EventUniverse) :
        /\ CheckStep("validate_events_enum",
              IF ~in.raises /\ in.names = enum_events THEN 0 ELSE 1)
        /\ validation_results' = EventsEnumResults(validation_results, enum_events, in)
        /\ actual_events' = IF in.raises THEN [state |-> "raised", names |-> {}]
                            ELSE [state |-> "read", names |-> in.names]

validate_event_schemas ==
    \E in \in EventSchemaInputs :
        /\ CheckStep("validate_event_schemas",
              IF /\ ~in.raises
                 /\ ~in.multi_raises
                 /\ \A i \in 1..Len(in.kinds) : in.kinds[i] \in {"frame", "empty"}
              THEN 0 ELSE 1)
        /\ validation_results' = EventSchemasResults(validation_results, in)
        /\ UNCHANGED actual_events

validate_server_cvars ==
    \E in \in NameListInputs(CvarUniverse) :
        /\ CheckStep("validate_server_cvars",
              IF ~in.raises /\ in.names = enum_cvars \ {"-"} THEN 0 ELSE 1)
        /\ validation_results' = ServerCvarsResults(validation_results, enum_cvars, in)
        /\ UNCHANGED actual_events

validate_grenades ==
    \E in \in GrenadeInputs :
        /\ CheckStep("validate_grenades",
              IF in.kind = "frame" /\ in.columns = GrenadeColumns /\ ~in.late_raise
              THEN 0 ELSE 1)
        /\ validation_results' = GrenadesResults(validation_results, in)
        /\ UNCHANGED actual_events

validate_voice_data ==
    \E in \in VoiceInputs :
        /\ CheckStep("validate_voice_data", IF in = "clips" THEN 0 ELSE 1)
        /\ validation_results' = VoiceDataResults(validation_results, in)
        /\ UNCHANGED actual_events

validate_other_methods ==
    \E kinds \in [1..Len(MethodsToTest) -> OtherKinds] :
        /\ CheckStep("validate_other_methods",
              Cardinality({i \in 1..Len(MethodsToTest) : kinds[i] # "frame"}))
        /\ validation_results' = OtherMethodsResults(validation_results, kinds, 1)
        /\ UNCHANGED actual_events

validate_ticks_parsing ==
    \E in \in TicksInputs :
        /\ CheckStep("validate_ticks_parsing",
              IF in.kind = "frame" /\ "steamid" \in in.columns THEN 0 ELSE 1)
        /\ validation_results' = TicksResults(validation_results, in)
        /\ UNCHANGED actual_events

\* self.print_validation_summary(): the last step of run_full_validation, and
\* callable again after it
print_validation_summary ==
    /\ \/ valPc = "summary"
       \/ valPc = "returned" /\ ~summary.printed
    /\ summary' = SummaryOf(validation_results)
    /\ valPc' = "returned"
    /\ UNCHANGED <<validation_results, enum_events, enum_cvars, actual_events,
                   anomalies>>
    /\ UNCHANGED nonValVars

NextVal ==
    \/ validate_header
    \/ validate_events_enum
    \/ validate_event_schemas
    \/ validate_server_cvars
    \/ validate_grenades
    \/ validate_voice_data
    \/ validate_other_methods
    \/ validate_ticks_parsing
    \/ print_validation_summary

SpecVal == InitVal /\ [][NextVal]_vars

\* ------------------------------------------------------------------------
\* The sampler validator: properties
\* ------------------------------------------------------------------------
\* the statuses the specification lists for a category result
SpecStatuses ==
    {"pending", "passed", "failed", "warning", "error", "no_data", "not_available"}

\* the statuses the checks of sampler.py store
CodeStatuses == SpecStatuses \cup {"partial", "not_found"}

\* C4: the printed summary says that all critical validations passed iff no
\* category has status failed or error
C4_OverallPassIffNoFailedOrError ==
    summary.printed =>
        (("All critical validations passed" \in summary.messages)
            <=> (\A c \in Categories :
                    validation_results[c].status \notin {"failed", "error"}))

C10_StatusInSpecSet ==
    \A c \in Categories : validation_results[c].status \in SpecStatuses

\* C10 as the code has it: every stored status is one of the seven listed
\* values or one of partial (event_schemas with issues) and not_found (a
\* parse method the parser lacks)
C10_StatusInCodeSet ==
    \A c \in Categories : validation_results[c].status \in CodeStatuses

\* event_schemas ended partial and an absent parse method ended not_found
C10_Witness ==
    /\ validation_results["event_schemas"].status = "partial"
    /\ \E c \in {"player_info", "item_drops", "skins"} :
           validation_results[c].status = "not_found"

\* the categories a check of run_full_validation writes
MethodCategories(method) ==
    CASE method = "validate_header" -> {"header"}
      [] method = "validate_events_enum" -> {"events"}
      [] method = "validate_event_schemas" -> {"event_schemas"}
      [] method = "validate_server_cvars" -> {"server_cvars"}
      [] method = "validate_grenades" -> {"grenades"}
      [] method = "validate_voice_data" -> {"voice_data"}
      [] method = "validate_other_methods" -> {"player_info", "item_drops", "skins"}
      [] OTHER -> {"ticks"}

\* C11: once the eight checks of run_full_validation have run (the summary
\* is due or the run has returned), no category is pending
C11_AllCategoriesTerminalOnReturn ==
    valPc \in {"summary", "returned"} =>
        \A c \in Categories : validation_results[c].status # "pending"

\* a returned run in which the header read raised and parse_voice is absent
C11_Witness ==
    /\ valPc = "returned"
    /\ validation_results["header"].status = "error"
    /\ validation_results["voice_data"].status = "not_available"
    /\ \A c \in Categories : validation_results[c].status # "pending"

\* C12: no step of the validator takes a category that has left pending
\* back to pending
C12_NeverBackToPending ==
    [][\A c \in Categories :
          validation_results[c].status # "pending"
              => validation_results'[c].status # "pending"]_vars

\* the header check passed on a repeated invocation, after an invocation
\* that recorded an issue
C12_Witness ==
    /\ valPc = "returned"
    /\ validation_results["header"].status = "passed"
    /\ Len(validation_results["header"].issues) > 0

\* C13: during run_full_validation each step is the next check of the fixed
\* order, it leaves its categories non-pending whatever the statuses stored
\* so far, and after the last check the summary is printed
C13_EveryCheckInvokedInOrder ==
    [][/\ \A i \in 1..Len(ValidationMethods) :
             valPc = ValidationMethods[i] =>
                 /\ valPc' = IF i = Len(ValidationMethods) THEN "summary"
                             ELSE ValidationMethods[i + 1]
                 /\ \A c \in MethodCategories(ValidationMethods[i]) :
                        validation_results'[c].status # "pending"
                 /\ \A c \in Categories \ MethodCategories(ValidationMethods[i]) :
                        validation_results'[c] = validation_results[c]
       /\ valPc = "summary" =>
             /\ valPc' = "returned"
             /\ summary' = SummaryOf(validation_results)
             /\ summary'.printed]_vars

\* a run whose second check ended in error, whose last check passed and
\* whose summary was printed
C13_Witness ==
    /\ valPc = "returned"
    /\ summary.printed
    /\ summary.errors > 0
    /\ validation_results["events"].status = "error"
    /\ validation_results["ticks"].status = "passed"

\* C28: every step of the validator is one check that changes the result
\* (status, issue list, name lists) of its own categories only: header,
\* events, event_schemas, server_cvars, grenades, voice_data and ticks for
\* their checks, and player_info, item_drops and skins for
\* validate_other_methods; during run_full_validation that check is the one
\* that is due
C28_ChecksChangeOwnCategoriesOnly ==
    [][\E i \in 1..Len(ValidationMethods) :
          /\ valPc \in {ValidationMethods[k] : k \in 1..Len(ValidationMethods)}
                 => valPc = ValidationMethods[i]
          /\ \A c \in Categories \ MethodCategories(ValidationMethods[i]) :
                 validation_results'[c] = validation_results[c]]_vars

\* validate_other_methods has left its three categories non-pending while
\* the ticks category, whose check follows it, is still pending and the
\* header category holds what its own check stored
C28_Witness ==
    /\ valPc = "validate_ticks_parsing"
    /\ \A c \in {"player_info", "item_drops", "skins"} :
           validation_results[c].status # "pending"
    /\ validation_results["ticks"] = InitialResults["ticks"]
    /\ validation_results["header"].status = "failed"
    /\ validation_results["skins"].status = "error"

\* C14: a category in error holds exactly one issue, the exception message
C14_ErrorHasSoleIssue ==
    \A c \in Categories :
        validation_results[c].status = "error"
            => Len(validation_results[c].issues) = 1

\* ------------------------------------------------------------------------
\* The generated-code validator (doc_validate.py): ValidationResult
\* ------------------------------------------------------------------------
\* ValidationResult.__init__
NewValidationResult ==
    [passed |-> 0, failed |-> 0, warnings |-> 0,
     errors |-> <<>>, warnings_list |-> <<>>, successes |-> <<>>]

add_success(r, message) ==
    [r EXCEPT !.passed = @ + 1, !.successes = Append(@, message)]

add_error(r, message) ==
    [r EXCEPT !.failed = @ + 1, !.errors = Append(@, message)]

\* add_warning that counts the warning as a failure
add_warning_as_failure(r, message) ==
    [r EXCEPT !.failed = @ + 1, !.warnings_list = Append(@, message)]

add_warning(r, message) ==
    [r EXCEPT !.warnings = @ + 1, !.warnings_list = Append(@, message)]

\* ValidationResult.print_summary: the counters and the overall status
print_summary(r) ==
    [printed |-> TRUE, passed |-> r.passed, failed |-> r.failed,
     warnings |-> r.warnings, total |-> r.passed + r.failed,
     overall |-> IF r.failed = 0 THEN "PASSED" ELSE "FAILED"]

\* ------------------------------------------------------------------------
\* A ValidationResult driven call by call
\* ------------------------------------------------------------------------
\* the number of add_* calls one run of the driver makes at most
MaxCalls == 3

\* messages handed to the add_* calls
ResultMessages == {"enum check", "schema check"}

InitResult ==
    /\ NormIdle
    /\ GenIdle
    /\ ValIdle
    /\ DocValIdle
    /\ EnumsTextIdle
    /\ ColumnsIdle
    /\ calls = <<>>

\* what every call of the driver leaves alone
ResultFrame ==
    /\ UNCHANGED <<dvPc, demo_path, analysis_json_exists, demo_events,
                   demo_cvars, analysis_data, dataclass_module, exit_code,
                   dvAnomalies>>
    /\ UNCHANGED <<normVars, genVars, valVars, covVars, hdrVars, cenVars,
                   colVars>>

CallAddSuccess ==
    /\ Len(calls) < MaxCalls
    /\ \E message \in ResultMessages : result' = add_success(result, message)
    /\ calls' = Append(calls, "add_success")
    /\ UNCHANGED report
    /\ ResultFrame

CallAddError ==
    /\ Len(calls) < MaxCalls
    /\ \E message \in ResultMessages : result' = add_error(result, message)
    /\ calls' = Append(calls, "add_error")
    /\ UNCHANGED report
    /\ ResultFrame

CallAddWarning ==
    /\ Len(calls) < MaxCalls
    /\ \E message \in ResultMessages : result' = add_warning(result, message)
    /\ calls' = Append(calls, "add_warning")
    /\ UNCHANGED report
    /\ ResultFrame

CallPrintSummary ==
    /\ report' = print_summary(result)
    /\ UNCHANGED <<result, calls>>
    /\ ResultFrame

NextResult ==
    \/ CallAddSuccess
    \/ CallAddError
    \/ CallAddWarning
    \/ CallPrintSummary

SpecResult == InitResult /\ [][NextResult]_vars

\* the number of calls of one kind made so far
CountCalls(kind) == Cardinality({i \in 1..Len(calls) : calls[i] = kind})

\* r2 is r1 with one more entry in the list named by field and the counter
\* named by counter one higher, and nothing else changed
OneMoreIn(r1, r2, counter, field) ==
    /\ r2[counter] = r1[counter] + 1
    /\ Len(r2[field]) = Len(r1[field]) + 1
    /\ SubSeq(r2[field], 1, Len(r1[field])) = r1[field]
    /\ \A f \in DOMAIN r1 \ {counter, field} : r2[f] = r1[f]

\* C29: after any sequence of add_success, add_error and add_warning calls,
\* passed, failed and warnings equal the numbers of successes, errors and
\* warnings recorded; each call raises exactly one counter by one and leaves
\* the other counters and lists as they are; the overall status printed
\* depends on the add_error calls only
C29_CountersMatchCalls ==
    /\ [](/\ result.passed = CountCalls("add_success")
          /\ result.passed = Len(result.successes)
          /\ result.failed = CountCalls("add_error")
          /\ result.failed = Len(result.errors)
          /\ result.warnings = CountCalls("add_warning")
          /\ result.warnings = Len(result.warnings_list))
    /\ [][/\ calls' # calls =>
               LET call == calls'[Len(calls')]
               IN  /\ call = "add_success" =>
                        OneMoreIn(result, result', "passed", "successes")
                   /\ call = "add_error" =>
                        OneMoreIn(result, result', "failed", "errors")
                   /\ call = "add_warning" =>
                        OneMoreIn(result, result', "warnings", "warnings_list")
           /\ report' # report =>
               (report'.overall = "PASSED" <=> CountCalls("add_error") = 0)]_vars

\* a summary printed after a warning and a success, with no error recorded
C29_Witness ==
    /\ CountCalls("add_warning") > 0
    /\ CountCalls("add_success") > 0
    /\ CountCalls("add_error") = 0
    /\ report.printed
    /\ report.warnings = result.warnings
    /\ report.overall = "PASSED"

\* ------------------------------------------------------------------------
\* The generated-code validator: what it reads
\* ------------------------------------------------------------------------
SeqRange(q) == {q[i] : i \in 1..Len(q)}

\* the demo file main() finds: none, or the first name that exists
DemoPaths == {"None", "dem.dem"}

\* _load_analysis_data: {} when the file cannot be loaded
EmptyAnalysis == [loaded |-> FALSE, events |-> <<>>, server_cvars |-> {}]

\* the columns the snapshot records for a category in the model
SnapshotColumns == {"tick"}

AnalysisOf(names, cvars) ==
    [loaded |-> TRUE,
     events |-> [e \in names |-> [columns |-> SnapshotColumns]],
     server_cvars |-> cvars]

\* what the constructor finds: DemoParser(demo_path) raising, or a demo
\* with its event list and field list, and the loaded snapshot
ConstructorInputs ==
    {[raises |-> TRUE]} \cup
    {[raises |-> FALSE, events |-> ev, cvars |-> cv, analysis |-> a] :
        ev \in {<<>>, <<"round_start">>, <<"round_start", "bomb_planted">>},
        cv \in {{}, {"m_iHealth"}},
        a \in {EmptyAnalysis, AnalysisOf({"round_start"}, {"m_iHealth"})}}

\* a call of list_game_events() / list_updated_fields() on the demo
ParserReads == {[raises |-> TRUE], [raises |-> FALSE]}

\* the other enumerations validate_enums looks at, and whether they have
\* members
OtherEnums == <<"Scope", "NType">>

OtherEnumInputs ==
    {[i \in 1..Len(OtherEnums) |-> "members"],
     [i \in 1..Len(OtherEnums) |-> IF i = 1 THEN "empty" ELSE "members"]}

\* the *Schema classes of the generated schema module
SchemaClasses == <<"GrenadeSchema">>

\* the dataclasses of the generated dataclass module: field count, and
\* whether the instantiation test runs and succeeds
DataclassInputs ==
    {<<[name |-> "Header", field_count |-> 1, instantiates |-> FALSE]>>,
     <<[name |-> "Header", field_count |-> 1, instantiates |-> FALSE],
       [name |-> "Empty", field_count |-> 0, instantiates |-> TRUE]>>}

\* what parse_event(event) does for one event
ParseEventInputs ==
    {[kind |-> "raise"], [kind |-> "other"]} \cup
    {[kind |-> "frame", columns |-> c] :
        c \in {SnapshotColumns, SnapshotColumns \cup {"userid"}, {}}}

\* parsing_methods of validate_parsing_methods
ParsingMethods ==
    <<"parse_header", "parse_player_info", "parse_grenades",
      "parse_item_drops", "parse_skins", "parse_ticks", "parse_voice">>

\* per method: the expected type, another type, no such method, an exception
MethodKinds == {"expected", "unexpected", "no_method", "raise"}

\* the kinds of a list of calls: all plain, or one call named in deviating
\* of another kind
OneDeviation(names, plain, deviating, kinds) ==
    {[i \in 1..Len(names) |-> plain]} \cup
    {[i \in 1..Len(names) |-> IF i = p THEN k ELSE plain] :
        p \in {i \in 1..Len(names) : names[i] \in deviating},
        k \in kinds \ {plain}}

MethodInputs ==
    OneDeviation(ParsingMethods, "expected", {"parse_ticks", "parse_voice"},
                 MethodKinds)

\* schema_tests of validate_pandera_schemas, followed by the parse_ticks test
SchemaTests ==
    <<"PlayerInfoSchema", "GrenadeSchema", "ItemDropSchema", "SkinSchema",
      "demoparser_schema">>

\* per test: data that validates, a SchemaError, another exception of
\* validate, an empty DataFrame, a missing schema or method, an exception of
\* the parse method
SchemaTestKinds ==
    {"valid", "schema_error", "validate_error", "empty", "missing", "raise"}

SchemaTestInputs ==
    OneDeviation(SchemaTests, "valid", {"GrenadeSchema", "demoparser_schema"},
                 SchemaTestKinds)

\* ------------------------------------------------------------------------
\* The generated-code validator: what each check adds to the result
\* ------------------------------------------------------------------------
\* the Event enum block of validate_enums
EventEnumCheck(r, enum, read, names) ==
    IF read.raises THEN add_error(r, "Failed to validate Event enum")
    ELSE LET missing_in_enum == names \ enum
             extra_in_enum == enum \ names
             r1 == IF missing_in_enum # {}
                   THEN add_error(r, "Events missing from enum")
                   ELSE r
             r2 == IF extra_in_enum # {}
                   THEN add_warning(r1, "Extra events in enum")
                   ELSE r1
         IN  IF missing_in_enum = {} /\ extra_in_enum = {}
             THEN add_success(r, "Event enum matches actual events")
             ELSE r2

\* the coverage a ServerCVar check must exceed, in percent
CoverageThreshold == 80

\* a coverage that divides by the size of the union of both sets
CoverageOfUnion(actual, enum) ==
    IF actual # {}
    THEN [defined |-> TRUE, num |-> Cardinality(actual) * 100,
          den |-> Cardinality(actual \cup enum)]
    ELSE [defined |-> TRUE, num |-> 0, den |-> 1]

\* coverage = len(actual & enum) / len(actual) * 100 if actual else 0, as
\* the fraction num / den
Coverage(actual, enum) ==
    IF actual # {}
    THEN [defined |-> TRUE, num |-> Cardinality(actual \cap enum) * 100,
          den |-> Cardinality(actual)]
    ELSE [defined |-> TRUE, num |-> 0, den |-> 1]

\* coverage > 80
CoverageAboveThreshold(actual, enum) ==
    LET c == Coverage(actual, enum)
    IN  c.num > CoverageThreshold * c.den

\* the ServerCVar enum block of validate_enums
ServerCVarEnumCheck(r, enum, read, names) ==
    IF read.raises THEN add_error(r, "Failed to validate ServerCVar enum")
    ELSE LET enum_values == enum \ {"-"}
         IN  IF CoverageAboveThreshold(names, enum_values)
             THEN add_success(r, "ServerCVar enum has coverage")
             ELSE add_warning(r, "ServerCVar enum only covers")

\* the loop over [Scope, NType] of validate_enums, from index i on
RECURSIVE OtherEnumsCheck(_, _, _)
OtherEnumsCheck(r, kinds, i) ==
    IF i > Len(OtherEnums) THEN r
    ELSE OtherEnumsCheck(
            IF kinds[i] = "members"
            THEN add_success(r, "enum properly defined")
            ELSE add_error(r, "enum is empty"),
            kinds, i + 1)

EnumsResults(r, enumE, enumC, evRead, events, cvRead, cvars, others) ==
    OtherEnumsCheck(
        ServerCVarEnumCheck(EventEnumCheck(r, enumE, evRead, events),
                            enumC, cvRead, cvars),
        others, 1)

\* the loop over schema_classes of validate_schemas, from index i on
RECURSIVE SchemaClassesCheck(_, _)
SchemaClassesCheck(r, i) ==
    IF i > Len(SchemaClasses) THEN r
    ELSE SchemaClassesCheck(add_success(r, "schema defined with fields"), i + 1)

SchemasResults(r, props_defined) ==
    LET r1 == SchemaClassesCheck(r, 1)
    IN  IF props_defined
        THEN add_success(r1, "demoparser_schema properly defined")
        ELSE add_error(r1, "demoparser_schema is not properly defined in props.py")

\* the loop over the dataclasses of validate_dataclasses, from index i on
RECURSIVE DataclassesResults(_, _, _)
DataclassesResults(r, classes, i) ==
    IF i > Len(classes) THEN r
    ELSE LET r1 == add_success(r, "dataclass properly defined")
             r2 == IF classes[i].instantiates
                   THEN add_success(r1, "dataclass can be instantiated")
                   ELSE r1
         IN  DataclassesResults(r2, classes, i + 1)

\* the number of events validate_parsing_methods parses
ParsingEventLimit == 10

\* one event of the loop over events[:10]: the result and whether the event
\* counted as successful
ParseEventCheck(r, analysis, event, in) ==
    IF in.kind = "raise" THEN [r |-> add_warning(r, "Could not parse event"), ok |-> 0]
    ELSE IF in.kind = "other" THEN [r |-> r, ok |-> 0]
    ELSE IF analysis.loaded /\ event \in DOMAIN analysis.events
    THEN LET expected_cols == analysis.events[event].columns
             missing == expected_cols \ in.columns
             extra == in.columns \ expected_cols
             r1 == IF missing # {}
                   THEN add_warning(r, "Event missing columns")
                   ELSE r
             r2 == IF extra # {}
                   THEN add_warning(r1, "Event extra columns")
                   ELSE r1
         IN  [r |-> IF expected_cols = in.columns
                    THEN add_success(r, "Event columns match analysis")
                    ELSE r2,
              ok |-> 1]
    ELSE [r |-> r, ok |-> 1]

RECURSIVE ParseEventsLoop(_, _, _, _, _, _)
ParseEventsLoop(r, analysis, events, ins, i, successful_events) ==
    IF i > Len(events) \/ i > ParsingEventLimit
    THEN IF successful_events > 0
         THEN add_success(r, "Successfully parsed events")
         ELSE add_error(r, "Could not parse any events")
    ELSE LET c == ParseEventCheck(r, analysis, events[i], ins[i])
         IN  ParseEventsLoop(c.r, analysis, events, ins, i + 1,
                             successful_events + c.ok)

\* the loop over parsing_methods, from index i on
RECURSIVE ParsingMethodsLoop(_, _, _)
ParsingMethodsLoop(r, kinds, i) ==
    IF i > Len(ParsingMethods) THEN r
    ELSE ParsingMethodsLoop(
            CASE kinds[i] = "expected" -> add_success(r, "method returns expected type")
              [] kinds[i] = "unexpected" -> add_warning(r, "method did not return expected type")
              [] kinds[i] = "no_method" -> add_warning(r, "Parser does not have method")
              [] OTHER -> add_warning(r, "Could not execute method"),
            kinds, i + 1)

ParsingMethodsResults(r, analysis, read, events, ins, kinds) ==
    ParsingMethodsLoop(
        IF read.raises THEN add_error(r, "Failed to validate event parsing")
        ELSE ParseEventsLoop(r, analysis, events, ins, 1, 0),
        kinds, 1)

\* one of the two comparisons of validate_data_consistency
ConsistencyCheck(r, read, actual, recorded, what) ==
    IF read.raises THEN add_error(r, "Failed to validate consistency of " \o what)
    ELSE IF actual = recorded THEN add_success(r, "lists consistent: " \o what)
    ELSE LET r1 == IF actual \ recorded # {}
                   THEN add_warning(r, "Analysis missing " \o what)
                   ELSE r
         IN  IF recorded \ actual # {}
             THEN add_warning(r1, "Analysis has extra " \o what)
             ELSE r1

DataConsistencyResults(r, analysis, evRead, events, cvRead, cvars) ==
    IF ~analysis.loaded
    THEN add_warning(r, "No analysis data available for consistency check")
    ELSE ConsistencyCheck(
            ConsistencyCheck(r, evRead, events, DOMAIN analysis.events, "events"),
            cvRead, cvars, analysis.server_cvars, "CVars")

\* the schema tests of validate_pandera_schemas, from index i on
RECURSIVE PanderaSchemasResults(_, _, _)
PanderaSchemasResults(r, kinds, i) ==
    IF i > Len(SchemaTests) THEN r
    ELSE PanderaSchemasResults(
            CASE kinds[i] = "valid" -> add_success(r, "schema successfully validates data")
              [] kinds[i] = "schema_error" -> add_error(r, "schema validation failed")
              [] kinds[i] = "validate_error" -> add_error(r, "schema validation error")
              [] kinds[i] = "empty" -> add_warning(r, "No data to validate")
              [] kinds[i] = "missing" -> add_warning(r, "Cannot test schema")
              [] OTHER -> add_error(r, "Failed to validate schema"),
            kinds, i + 1)

\* sys.exit(0 if success else 1) reporting success whatever main returned
ExitCodeAlwaysZero(success) == 0

\* sys.exit(0 if success else 1)
ExitCode(success) == IF success THEN 0 ELSE 1

\* ------------------------------------------------------------------------
\* The generated-code validator: main and validate_all
\* ------------------------------------------------------------------------
\* the checks of validate_all, in its order
DocValidateChecks ==
    <<"validate_enums", "validate_schemas", "validate_dataclasses",
      "validate_parsing_methods", "validate_data_consistency",
      "validate_pandera_schemas">>

InitDocVal ==
    /\ NormIdle
    /\ LogIdle
    /\ EnumsTextIdle
    /\ ColumnsIdle
    /\ GenIdle
    /\ validation_results = <<>>
    /\ valPc = "idle"
    /\ enum_events \in EnumEventSamples
    /\ enum_cvars \in EnumCvarSamples
    /\ actual_events = [state |-> "none", names |-> {}]
    /\ summary = [printed |-> FALSE]
    /\ anomalies = 0
    /\ dvPc = "main"
    /\ demo_path \in DemoPaths
    /\ analysis_json_exists \in BOOLEAN
    /\ demo_events = <<>>
    /\ demo_cvars = {}
    /\ analysis_data = EmptyAnalysis
    /\ dataclass_module = [checked |-> FALSE, classes |-> <<>>]
    /\ result = NewValidationResult
    /\ report = [printed |-> FALSE]
    /\ exit_code = -1
    /\ dvAnomalies = 0
    /\ coverage = [defined |-> FALSE]
    /\ prev_coverage = [defined |-> FALSE]
    /\ HdrIdle

\* the process ends with the exit code of main's return value
Exit(success) ==
    /\ dvPc' = "exited"
    /\ exit_code' = ExitCode(success)

\* main() up to the call of validate_all: the two prerequisites, then the
\* constructor; a missing prerequisite or an exception returns False
main ==
    /\ dvPc = "main"
    /\ \E c \in ConstructorInputs :
        IF demo_path = "None" \/ ~analysis_json_exists \/ c.raises
        THEN /\ Exit(FALSE)
             /\ UNCHANGED <<demo_events, demo_cvars, analysis_data, result>>
        ELSE /\ dvPc' = DocValidateChecks[1]
             /\ demo_events' = c.events
             /\ demo_cvars' = c.cvars
             /\ analysis_data' = c.analysis
             /\ result' = NewValidationResult
             /\ UNCHANGED exit_code
    /\ UNCHANGED <<demo_path, analysis_json_exists, dataclass_module, report,
                   dvAnomalies>>
    /\ UNCHANGED nonDvVars

\* bookkeeping shared by the checks of validate_all
DocValStep(check, cost) ==
    /\ dvPc = check
    /\ dvAnomalies + cost <= MaxAnomalies
    /\ dvAnomalies' = dvAnomalies + cost
    /\ dvPc' = LET i == CHOOSE k \in 1..Len(DocValidateChecks) :
                            DocValidateChecks[k] = check
               IN  IF i = Len(DocValidateChecks) THEN "print_summary"
                   ELSE DocValidateChecks[i + 1]
    /\ UNCHANGED <<demo_path, analysis_json_exists, demo_events, demo_cvars,
                   analysis_data, report, exit_code>>
    /\ UNCHANGED nonDvVars

Raised(read) == IF read.raises THEN 1 ELSE 0

validate_enums ==
    \E evRead \in ParserReads, cvRead \in ParserReads, others \in OtherEnumInputs :
        /\ DocValStep("validate_enums",
              Raised(evRead) + Raised(cvRead)
              + Cardinality({i \in 1..Len(OtherEnums) : others[i] # "members"}))
        /\ result' = EnumsResults(result, enum_events, enum_cvars,
                                  evRead, SeqRange(demo_events),
                                  cvRead, demo_cvars, others)
        /\ UNCHANGED dataclass_module

validate_schemas ==
    \E props_defined \in BOOLEAN :
        /\ DocValStep("validate_schemas", IF props_defined THEN 0 ELSE 1)
        /\ result' = SchemasResults(result, props_defined)
        /\ UNCHANGED dataclass_module

validate_dataclasses ==
    \E classes \in DataclassInputs :
        /\ DocValStep("validate_dataclasses", Len(classes) - 1)
        /\ dataclass_module' = [checked |-> TRUE, classes |-> classes]
        /\ result' = DataclassesResults(result, classes, 1)

validate_parsing_methods ==
    \E read \in ParserReads,
       ins \in [1..Len(demo_events) -> ParseEventInputs],
       kinds \in MethodInputs :
        /\ DocValStep("validate_parsing_methods",
              Raised(read)
              + Cardinality({i \in 1..Len(ins) :
                    ins[i].kind # "frame" \/ ins[i].columns # SnapshotColumns})
              + Cardinality({i \in 1..Len(kinds) : kinds[i] # "expected"}))
        /\ result' = ParsingMethodsResults(result, analysis_data, read,
                                           demo_events, ins, kinds)
        /\ UNCHANGED dataclass_module

validate_data_consistency ==
    \E evRead \in ParserReads, cvRead \in ParserReads :
        /\ DocValStep("validate_data_consistency", Raised(evRead) + Raised(cvRead))
        /\ result' = DataConsistencyResults(result, analysis_data,
                                            evRead, SeqRange(demo_events),
                                            cvRead, demo_cvars)
        /\ UNCHANGED dataclass_module

validate_pandera_schemas ==
    \E kinds \in SchemaTestInputs :
        /\ DocValStep("validate_pandera_schemas",
              Cardinality({i \in 1..Len(kinds) : kinds[i] # "valid"}))
        /\ result' = PanderaSchemasResults(result, kinds, 1)
        /\ UNCHANGED dataclass_module

\* the end of validate_all and of main: the summary is printed, validate_all
\* returns failed == 0, main returns it and the process exits
validate_all_returns ==
    /\ dvPc = "print_summary"
    /\ report' = print_summary(result)
    /\ Exit(result.failed = 0)
    /\ UNCHANGED <<demo_path, analysis_json_exists, demo_events, demo_cvars,
                   analysis_data, dataclass_module, result, dvAnomalies>>
    /\ UNCHANGED nonDvVars

NextDocVal ==
    \/ main
    \/ validate_enums
    \/ validate_schemas
    \/ validate_dataclasses
    \/ validate_parsing_methods
    \/ validate_data_consistency
    \/ validate_pandera_schemas
    \/ validate_all_returns

SpecDocVal == InitDocVal /\ [][NextDocVal]_vars

\* ------------------------------------------------------------------------
\* The generated-code validator: properties
\* ------------------------------------------------------------------------
\* C5 as stated: the exit code is non-zero only if a check recorded a
\* failure, and in every other case the report is printed and the exit
\* code is 0
C5_NonZeroExitOnlyOnRecordedFailure ==
    dvPc = "exited" =>
        /\ exit_code # 0 => result.failed > 0
        /\ result.failed = 0 => (report.printed /\ exit_code = 0)

\* C5 as the code has it: the exit code is 0 iff both prerequisites exist,
\* the constructor did not raise and no check recorded a failure; otherwise
\* it is 1; the report is printed iff validate_all ran, and then the exit
\* code is 0 iff the overall status is passed, whatever warnings there are
C5_ExitCodeOfValidateRun ==
    dvPc = "exited" =>
        /\ exit_code \in {0, 1}
        /\ exit_code = 0 <=>
               /\ demo_path # "None"
               /\ analysis_json_exists
               /\ report.printed
               /\ result.failed = 0
        /\ (demo_path = "None" \/ ~analysis_json_exists) => ~report.printed
        /\ report.printed =>
               /\ report.failed = result.failed
               /\ report.overall = "PASSED" <=> exit_code = 0

\* a run without demo file: exit code 1 and no report, no failure recorded
C5_Witness ==
    /\ dvPc = "exited"
    /\ demo_path = "None"
    /\ exit_code = 1
    /\ ~report.printed
    /\ result.failed = 0

\* validate_all of doc_validate.py: each step is the next check of the fixed
\* order whatever the result holds so far, and after the last check the
\* summary is printed
ValidateAllRunsEveryCheck ==
    [][/\ \A i \in 1..Len(DocValidateChecks) :
             dvPc = DocValidateChecks[i] =>
                 dvPc' = IF i = Len(DocValidateChecks) THEN "print_summary"
                         ELSE DocValidateChecks[i + 1]
       /\ dvPc = "print_summary" => (report'.printed /\ dvPc' = "exited")]_vars

\* ------------------------------------------------------------------------
\* The ServerCVar coverage check of validate_enums on its own
\* ------------------------------------------------------------------------
\* the number of field names of the model
MaxCvars == 5

CvarNamePool ==
    <<"m_iHealth", "m_ArmorValue", "m_iTeamNum", "m_bIsScoped",
      "m_flFlashDuration", "m_iAccount", "m_hActiveWeapon">>

CvarNames == {CvarNamePool[i] : i \in 1..MaxCvars}

\* the fresh field names are any subset of the names; the enumeration holds
\* the NA member "-" and any subset of the names
InitCoverage ==
    /\ NormIdle
    /\ LogIdle
    /\ EnumsTextIdle
    /\ ColumnsIdle
    /\ GenIdle
    /\ validation_results = <<>>
    /\ valPc = "idle"
    /\ enum_events = {}
    /\ enum_cvars \in {e \cup {"-"} : e \in SUBSET CvarNames}
    /\ actual_events = [state |-> "none", names |-> {}]
    /\ summary = [printed |-> FALSE]
    /\ anomalies = 0
    /\ dvPc = "validate_enums"
    /\ demo_path = "dem.dem"
    /\ analysis_json_exists = TRUE
    /\ demo_events = <<>>
    /\ demo_cvars \in SUBSET CvarNames
    /\ analysis_data = EmptyAnalysis
    /\ dataclass_module = [checked |-> FALSE, classes |-> <<>>]
    /\ result = NewValidationResult
    /\ report = [printed |-> FALSE]
    /\ exit_code = -1
    /\ dvAnomalies = 0
    /\ coverage = [defined |-> FALSE]
    /\ prev_coverage = [defined |-> FALSE]
    /\ HdrIdle

\* the ServerCVar block of validate_enums on a fresh result
CheckServerCVarCoverage ==
    /\ dvPc = "validate_enums"
    /\ result' = ServerCVarEnumCheck(NewValidationResult, enum_cvars,
                                     [raises |-> FALSE], demo_cvars)
    /\ coverage' = Coverage(demo_cvars, enum_cvars \ {"-"})
    /\ prev_coverage' = coverage
    /\ dvPc' = "validate_schemas"
    /\ UNCHANGED <<demo_path, analysis_json_exists, demo_events, demo_cvars,
                   analysis_data, dataclass_module, report, exit_code,
                   dvAnomalies>>
    /\ UNCHANGED <<normVars, genVars, valVars, hdrVars, logVars, cenVars, colVars>>

\* the next demo lists one more field name, which the enumeration lacks
FreshNameAppears ==
    /\ dvPc = "validate_schemas"
    /\ \E c \in CvarNames \ (demo_cvars \cup enum_cvars) :
           demo_cvars' = demo_cvars \cup {c}
    /\ dvPc' = "validate_enums"
    /\ UNCHANGED <<demo_path, analysis_json_exists, demo_events,
                   analysis_data, dataclass_module, result, report, exit_code,
                   dvAnomalies>>
    /\ UNCHANGED covVars
    /\ UNCHANGED <<normVars, genVars, valVars, hdrVars, logVars, cenVars, colVars>>

NextCoverage ==
    \/ CheckServerCVarCoverage
    \/ FreshNameAppears

SpecCoverage == InitCoverage /\ [][NextCoverage]_vars

\* a <= b for two coverages
CoverageLeq(a, b) == a.num * b.den <= b.num * a.den

\* C17: the coverage computed after a name outside the enumeration joined
\* the fresh set is at most the coverage computed before
C17_CoverageMonotone ==
    (dvPc = "validate_schemas" /\ prev_coverage.defined) =>
        CoverageLeq(coverage, prev_coverage)

\* a coverage that dropped below a positive earlier coverage
C17_Witness ==
    /\ dvPc = "validate_schemas"
    /\ prev_coverage.defined
    /\ prev_coverage.num > 0
    /\ ~CoverageLeq(prev_coverage, coverage)

\* C18: for a non-empty fresh set the check records a warning iff the
\* coverage is below 80, and a success iff it is 80 or more
C18_WarningIffBelowThreshold ==
    (dvPc = "validate_schemas" /\ demo_cvars # {}) =>
        /\ result.failed = 0
        /\ result.warnings = 1 <=> coverage.num < CoverageThreshold * coverage.den
        /\ result.passed = 1 <=> coverage.num >= CoverageThreshold * coverage.den

\* ------------------------------------------------------------------------
\* The Header dataclass of generate_dataclass_py
\* ------------------------------------------------------------------------
\* the number of keys of a sampled header
MaxHeaderKeys == 3

\* field_order of doc_gen.py
HeaderFieldOrder ==
    <<"server_name", "demo_file_stamp", "network_protocol", "map_name",
      "fullpackets_version", "allow_clientside_entities",
      "allow_clientside_particles", "demo_version_name", "demo_version_guid",
      "client_name", "game_directory", "addons">>

\* keys a sampled header may hold: three of field_order, 'addons' among
\* them, and two others
HeaderKeyPool ==
    {"server_name", "map_name", "addons", "patch_version", "build_num"}

\* the one field emitted with a default value (default_factory)
FieldHasDefault(field_name) == field_name = "addons"

\* the elements of keys for which member holds, in the order of keys
RECURSIVE FilterKeys(_, _)
FilterKeys(keys, members) ==
    IF keys = <<>> THEN <<>>
    ELSE (IF keys[1] \in members THEN <<keys[1]>> ELSE <<>>)
         \o FilterKeys(Tail(keys), members)

\* the field names of the emitted Header class, in order, for the header
\* keys in their dict order; no class at all for an empty mapping
HeaderClassFields(v, keys) ==
    IF v = "doc_gen"
    THEN FilterKeys(HeaderFieldOrder, {keys[i] : i \in 1..Len(keys)})
         \o FilterKeys(keys, {keys[i] : i \in 1..Len(keys)}
                                \ {HeaderFieldOrder[i] : i \in 1..Len(HeaderFieldOrder)})
    ELSE keys

InitHeader ==
    /\ NormIdle
    /\ LogIdle
    /\ EnumsTextIdle
    /\ ColumnsIdle
    /\ ValIdle
    /\ variant \in {"doc_gen", "generator"}
    /\ srcListRaises = FALSE
    /\ srcEvents = <<>>
    /\ srcBatches = <<>>
    /\ genPc = "idle"
    /\ analysis_results = [events |-> <<>>]
    /\ written = <<>>
    /\ enumsCode = <<>>
    /\ dataclassCode = <<>>
    /\ schemaCode = <<>>
    /\ dvPc = "idle"
    /\ demo_path = "None"
    /\ analysis_json_exists = FALSE
    /\ demo_events = <<>>
    /\ demo_cvars = {}
    /\ analysis_data = EmptyAnalysis
    /\ dataclass_module = [checked |-> FALSE, classes |-> <<>>]
    /\ result = NewValidationResult
    /\ report = [printed |-> FALSE]
    /\ exit_code = -1
    /\ dvAnomalies = 0
    /\ coverage = [defined |-> FALSE]
    /\ prev_coverage = [defined |-> FALSE]
    /\ srcHeader \in {[raises |-> TRUE]} \cup
                     {[raises |-> FALSE, keys |-> k] :
                         k \in DistinctSeqs(HeaderKeyPool, 0, MaxHeaderKeys)}
    /\ header_fields = <<>>
    /\ headerCode = <<>>
    /\ hdrPc = "start"

\* the header block of analyze_demo
AnalyzeHeader ==
    /\ hdrPc = "start"
    /\ header_fields' = IF srcHeader.raises THEN header_fields ELSE srcHeader.keys
    /\ hdrPc' = "analyzed"
    /\ UNCHANGED <<srcHeader, headerCode>>
    /\ UNCHANGED <<normVars, genVars, valVars, dvVars, covVars, logVars, cenVars, colVars>>

\* the Header block of generate_dataclass_py
GenerateHeaderDataclass ==
    /\ hdrPc = "analyzed"
    /\ headerCode' = HeaderClassFields(variant, header_fields)
    /\ hdrPc' = "generated"
    /\ UNCHANGED <<srcHeader, header_fields>>
    /\ UNCHANGED <<normVars, genVars, valVars, dvVars, covVars, logVars, cenVars, colVars>>

NextHeader ==
    \/ AnalyzeHeader
    \/ GenerateHeaderDataclass

SpecHeader == InitHeader /\ [][NextHeader]_vars

\* the header keys of the model in lexicographic order
SortedHeaderKeys == <<"build_num", "map_name", "patch_version", "server_name">>

\* C19: the emitted Header fields are the sampled keys of the preferred
\* list in the preferred order, followed by the other sampled keys in
\* lexicographic order, whatever the order of the sampled mapping
C19_HeaderFieldOrder ==
    hdrPc = "generated" =>
        LET sampled == {header_fields[i] : i \in 1..Len(header_fields)}
            preferred == {HeaderFieldOrder[i] : i \in 1..Len(HeaderFieldOrder)}
        IN  headerCode = FilterKeys(HeaderFieldOrder, sampled)
                         \o FilterKeys(SortedHeaderKeys, sampled \ preferred)

\* C26: in the emitted Header record no field without a default value comes
\* after the 'addons' field, for every header key set and key order
C26_NoFieldWithoutDefaultAfterAddons ==
    hdrPc = "generated" =>
        \A i, j \in 1..Len(headerCode) :
            (i < j /\ FieldHasDefault(headerCode[i]))
                => FieldHasDefault(headerCode[j])

\* the number of entries of a list of messages that equal message
CountMessages(messages, message) ==
    Cardinality({i \in 1..Len(messages) : messages[i] = message})

\* C20: once validate_dataclasses has run, the successes 'dataclass properly
\* defined' are as many as the discovered dataclasses with at least one
\* field: a dataclass without fields is not counted as a success
C20_EmptyRecordTypeNeverPasses ==
    dataclass_module.checked =>
        CountMessages(result.successes, "dataclass properly defined")
            = Cardinality({i \in 1..Len(dataclass_module.classes) :
                              dataclass_module.classes[i].field_count > 0})

====
